---- MODULE Spec2Model ----
(***************************************************************************)
(* Strict JSON-schema normalizer (src/src/agents/strict_schema.py), under  *)
(* Spec, JSON repair pipeline (src/src/agents/util/_json_repair.py),       *)
(* under RepairSpec, the output schemas that call it                       *)
(* (src/src/agents/agent_output.py, src/src/agents/json_object_output.py), *)
(* under BoundarySpec, and the validator cache of JsonObjectOutputSchema,  *)
(* under CacheSpec.                                                        *)
(*                                                                         *)
(* Python dictionaries and lists are mutable objects with identity, and    *)
(* the normalizer works by in-place mutation and shallow copies, so the    *)
(* model keeps an explicit heap: an address is an index into `heap`, a     *)
(* dictionary is a pair of parallel sequences (insertion order is part of  *)
(* a Python dict), a list is a sequence of values.  A value is either an   *)
(* immutable scalar or a pointer to a heap object.                         *)
(***************************************************************************)
EXTENDS Integers, Sequences, FiniteSets, TLC

VARIABLES heap, doc, pc, result, error, heap0, value1, mutated, walked, pointer,
          inlined_schema

\* The repair pipeline (src/src/agents/util/_json_repair.py): the arguments
\* of one call of repair_and_validate_json, the module flag
\* JSON_REPAIR_AVAILABLE, the position rpc of the call, the loop variable
\* `attempt`, the argument original_error of _attempt_json_repair, the
\* JsonRepairResult returned (`res`), the exception that left the call
\* (`raised`) and the repair methods run so far (`ran`).
VARIABLES json_str, type_adapter, enable_repair, max_repair_attempts,
          JSON_REPAIR_AVAILABLE, rpc, attempt, original_error, res, raised, ran

normVars == <<heap, doc, pc, result, error, heap0, value1, mutated, walked, pointer,
              inlined_schema>>

repairVars == <<json_str, type_adapter, enable_repair, max_repair_attempts,
                JSON_REPAIR_AVAILABLE, rpc, attempt, original_error, res, raised, ran>>

\* The output schemas: the schema object constructed (`output_schema`), the
\* enable_repair argument of validate_json (`enable_arg`), the position bpc
\* of the caller, what the caller got (`out`: a value returned or an
\* exception raised) and the class attribute _validator_cache of
\* JsonObjectOutputSchema, a dict from types to adapters kept as the
\* sequence of its keys in insertion order.
VARIABLES output_schema, enable_arg, bpc, out, validator_cache

boundaryVars == <<output_schema, enable_arg, bpc, out, validator_cache>>

vars == <<normVars, repairVars, boundaryVars>>

----------------------------------------------------------------------------
(* Bounds *)

\* Number of nested calls at which the interpreter raises RecursionError.
RecursionLimit == 14

\* Number of interpreter steps given to one call of the normalizer.
MaxSteps == 1024

\* Largest max_repair_attempts a caller passes.
MaxAttempts == 4

\* The largest max_size a caller passes to cleanup_cache.
MaxSize == 5

----------------------------------------------------------------------------
(* Values *)

Str(s) == [s |-> s]

Bool(b) == [b |-> b]

None == [none |-> TRUE]

Ptr(a) == [p |-> a]

IsPtr(v) == DOMAIN v = {"p"}

IsStr(v) == DOMAIN v = {"s"}

\* Python truthiness of a scalar value (pointers are handled by Truthy).
ScalarTruthy(v) ==
    IF IsStr(v) THEN v.s # ""
    ELSE IF DOMAIN v = {"b"} THEN v.b
    ELSE FALSE

EmptyDict == [keys |-> <<>>, vals |-> <<>>]

EmptyList == [elems |-> <<>>]

is_dict(h, v) == IsPtr(v) /\ "keys" \in DOMAIN h[v.p]

is_list(h, v) == IsPtr(v) /\ "elems" \in DOMAIN h[v.p]

\* bool(v): an empty dict or list is falsy.
Truthy(h, v) ==
    IF is_dict(h, v) THEN Len(h[v.p].keys) > 0
    ELSE IF is_list(h, v) THEN Len(h[v.p].elems) > 0
    ELSE ScalarTruthy(v)

----------------------------------------------------------------------------
(* Dictionary operations on a dict object o = [keys, vals] *)

HasKey(o, k) == \E i \in 1..Len(o.keys) : o.keys[i] = k

IndexOf(o, k) == CHOOSE i \in 1..Len(o.keys) : o.keys[i] = k

\* o[k]
GetItem(o, k) == o.vals[IndexOf(o, k)]

\* o.get(k)
Get(o, k) == IF HasKey(o, k) THEN GetItem(o, k) ELSE None

\* o[k] = v : an existing key keeps its position, a new key goes last.
SetItem(o, k, v) ==
    IF HasKey(o, k)
    THEN [o EXCEPT !.vals[IndexOf(o, k)] = v]
    ELSE [keys |-> Append(o.keys, k), vals |-> Append(o.vals, v)]

RemoveAt(s, i) == SubSeq(s, 1, i - 1) \o SubSeq(s, i + 1, Len(s))

\* o.pop(k, None)
Pop(o, k) ==
    IF HasKey(o, k)
    THEN [keys |-> RemoveAt(o.keys, IndexOf(o, k)),
          vals |-> RemoveAt(o.vals, IndexOf(o, k))]
    ELSE o

RECURSIVE UpdateFrom(_, _, _)
\* o.update(o2), from o2's i-th key on; also {**o, **o2}.
UpdateFrom(o, o2, i) ==
    IF i > Len(o2.keys) THEN o
    ELSE UpdateFrom(SetItem(o, o2.keys[i], o2.vals[i]), o2, i + 1)

Update(o, o2) == UpdateFrom(o, o2, 1)

\* Allocation of a new object: its address is the next free index.
Alloc(h, o) == Append(h, o)

NewAddr(h) == Len(h) + 1

----------------------------------------------------------------------------
(* Errors *)

NoError == [kind |-> "none", arg |-> ""]

Raise(k, a) == [kind |-> k, arg |-> a]

UserError == Raise("UserError: additionalProperties should not be set", "")

TypeError == Raise("TypeError: expected a dictionary", "")

RecursionError == Raise("RecursionError", "")

CircularReference(ref) == Raise("ValueError: Circular reference detected", ref)

----------------------------------------------------------------------------
(* resolve_ref *)

\* The text of the pointers that occur in the documents or are passed by
\* a caller, as tokens: a separator "/" or a maximal run of other characters.
Text(ref) ==
    CASE ref = "#/$defs/A" -> <<"#", "/", "$defs", "/", "A">>
      [] ref = "#/$defs/B" -> <<"#", "/", "$defs", "/", "B">>
      [] ref = "#/definitions/A" -> <<"#", "/", "definitions", "/", "A">>
      [] ref = "#/definitions/B" -> <<"#", "/", "definitions", "/", "B">>
      [] ref = "#/properties/b/$defs/C" ->
            <<"#", "/", "properties", "/", "b", "/", "$defs", "/", "C">>
      [] ref = "#/properties/b" -> <<"#", "/", "properties", "/", "b">>
      [] ref = "#/properties/b/type" ->
            <<"#", "/", "properties", "/", "b", "/", "type">>
      [] ref = "#/type" -> <<"#", "/", "type">>
      [] ref = "#/type/object" -> <<"#", "/", "type", "/", "object">>
      [] ref = "#/" -> <<"#", "/">>
      [] ref = "$defs/A" -> <<"$defs", "/", "A">>
      [] ref = "/$defs/A" -> <<"/", "$defs", "/", "A">>
      [] OTHER -> <<ref>>

\* ref.startswith("#/")
StartsWithRoot(t) == Len(t) >= 2 /\ t[1] = "#" /\ t[2] = "/"

RECURSIVE Split(_, _)
\* t.split("/"), cur being the segment read so far ("" when none).
Split(t, cur) ==
    IF t = <<>> THEN <<cur>>
    ELSE IF Head(t) = "/" THEN <<cur>> \o Split(Tail(t), "")
    ELSE Split(Tail(t), Head(t))

RECURSIVE ResolvePathLeaf(_, _, _)
\* A slip: only the intermediate values are asserted to be dictionaries.
ResolvePathLeaf(h, resolved, path) ==
    IF path = <<>> THEN [v |-> resolved, err |-> NoError]
    ELSE IF ~HasKey(h[resolved.p], Head(path))
    THEN [v |-> None, err |-> Raise("KeyError", Head(path))]
    ELSE LET value == GetItem(h[resolved.p], Head(path)) IN
         IF Tail(path) = <<>> THEN [v |-> value, err |-> NoError]
         ELSE IF ~is_dict(h, value)
         THEN [v |-> None,
               err |-> Raise("AssertionError: non-dictionary entry", Head(path))]
         ELSE ResolvePathLeaf(h, value, Tail(path))

RECURSIVE ResolvePath(_, _, _)
\* Lines 154-162: the path is followed from root, one key at a time.
ResolvePath(h, resolved, path) ==
    IF path = <<>> THEN [v |-> resolved, err |-> NoError]
    ELSE IF ~HasKey(h[resolved.p], Head(path))
    THEN [v |-> None, err |-> Raise("KeyError", Head(path))]
    ELSE LET value == GetItem(h[resolved.p], Head(path)) IN
         IF ~is_dict(h, value)
         THEN [v |-> None,
               err |-> Raise("AssertionError: non-dictionary entry", Head(path))]
         ELSE ResolvePath(h, value, Tail(path))

resolve_ref(h, root, ref) ==
    IF ~StartsWithRoot(Text(ref))
    THEN [v |-> None, err |-> Raise("ValueError: Unexpected $ref format", ref)]
    ELSE ResolvePath(h, root, Split(SubSeq(Text(ref), 3, Len(Text(ref))), ""))

has_more_than_n_keys(o, n) == Len(o.keys) > n

----------------------------------------------------------------------------
(* The interpreter.  A call of the normalizer is run as Python runs it: a   *)
(* machine m = [h, stack, ret, err, walked] holds the heap, the call stack, *)
(* the value returned by the outermost call, the exception raised, and the  *)
(* nodes the strict walk has reached (at line 65) so far.  A frame          *)
(* holds the function, its position pc = <<stage, phase>>, its arguments    *)
(* (node, root, visited) and its locals: `it` the values a loop still has   *)
(* to visit, `keys` the keys of the mapping being rebuilt, `acc` the values *)
(* returned by the calls made so far, `res` the address of `result`.        *)

Frame(fn, node, root, visited) ==
    [fn |-> fn, pc |-> <<"enter", "test">>, node |-> node, root |-> root,
     visited |-> visited, it |-> <<>>, keys |-> <<>>, acc |-> <<>>, res |-> 0]

Top(m) == m.stack[Len(m.stack)]

Halted(m) == m.stack = <<>>

SetTop(m, f) == [m EXCEPT !.stack[Len(m.stack)] = f]

Goto(m, stage) == SetTop(m, [Top(m) EXCEPT !.pc = <<stage, "test">>])

\* No frame of the normalizer catches an exception: it ends the call.
Throw(m, e) == [m EXCEPT !.stack = <<>>, !.err = e]

\* A call pushes a frame, unless the stack is as deep as the interpreter allows.
Call(m, frame) ==
    IF Len(m.stack) >= RecursionLimit THEN Throw(m, RecursionError)
    ELSE [m EXCEPT !.stack = Append(@, frame)]

\* `return v`: the frame is popped and v handed to the caller.
Return(m, v) ==
    IF Len(m.stack) = 1 THEN [m EXCEPT !.stack = <<>>, !.ret = v]
    ELSE [m EXCEPT !.stack = [i \in 1..(Len(m.stack) - 1) |->
                                IF i = Len(m.stack) - 1
                                THEN [m.stack[i] EXCEPT !.acc = Append(@, v)]
                                ELSE m.stack[i]]]

\* The frame f moves to position pc with locals it, keys; acc is emptied.
Enter(f, at, it, keys) == [f EXCEPT !.pc = at, !.it = it, !.keys = keys, !.acc = <<>>]

----------------------------------------------------------------------------
(* _ensure_strict_json_schema (lines 44-146): the strict walk.  It mutates  *)
(* the node it is given and returns that same node.                         *)

StrictFrame(node, root) == Frame("_ensure_strict_json_schema", node, root, None)

\* A loop or comprehension over f.it: the walk of the next element is called.
StrictNext(m, f) ==
    Call(SetTop(m, [f EXCEPT !.it = Tail(@)]), StrictFrame(Head(f.it), f.root))

\* Lines 50-51
StrictEnter(m, f) ==
    IF ~is_dict(m.h, f.node) THEN Throw(m, TypeError) ELSE Goto(m, "$defs")

\* A slip: the definitions are not walked.
StrictDefsSkipped(m, f, key, next) == Goto(m, next)

\* Lines 53-56 and 58-63: every definition under `key` is walked.
StrictDefs(m, f, key, next) ==
    IF f.pc[2] = "test"
    THEN LET defs == Get(m.h[f.node.p], key) IN
         IF is_dict(m.h, defs)
         THEN SetTop(m, Enter(f, <<key, "loop">>, m.h[defs.p].vals, <<>>))
         ELSE Goto(m, next)
    ELSE IF f.it = <<>> THEN Goto(m, next) ELSE StrictNext(m, f)

\* A slip: additionalProperties is set to false whatever the object declared.
StrictAdditionalPropertiesOverridden(m, f) ==
    LET o == m.h[f.node.p] IN
    IF Get(o, "type") = Str("object")
    THEN Goto([m EXCEPT !.h[f.node.p] = SetItem(o, "additionalProperties", Bool(FALSE))],
              "properties")
    ELSE Goto(m, "properties")

\* Lines 65-78: the object is closed, or additionalProperties is rejected.
StrictAdditionalProperties(m, f) ==
    LET o == m.h[f.node.p] IN
    IF Get(o, "type") = Str("object") /\ ~HasKey(o, "additionalProperties")
    THEN Goto([m EXCEPT !.h[f.node.p] = SetItem(o, "additionalProperties", Bool(FALSE))],
              "properties")
    ELSE IF /\ Get(o, "type") = Str("object")
            /\ HasKey(o, "additionalProperties")
            /\ Truthy(m.h, GetItem(o, "additionalProperties"))
    THEN Throw(m, UserError)
    ELSE Goto(m, "properties")

\* A slip: required is left empty.
KeyListEmpty(o) == [elems |-> <<>>]

\* list(properties.keys())
KeyList(o) == [elems |-> [i \in 1..Len(o.keys) |-> Str(o.keys[i])]]

\* Lines 82-88: every property becomes required, then each is walked and
\* the walked properties are put into a new dict.
StrictProperties(m, f) ==
    IF f.pc[2] = "test"
    THEN LET properties == Get(m.h[f.node.p], "properties") IN
         IF ~is_dict(m.h, properties) THEN Goto(m, "items")
         ELSE LET h1 == Alloc(m.h, KeyList(m.h[properties.p]))
                  h2 == [h1 EXCEPT ![f.node.p] = SetItem(@, "required", Ptr(Len(h1)))]
              IN SetTop([m EXCEPT !.h = h2],
                        Enter(f, <<"properties", "loop">>,
                              m.h[properties.p].vals, m.h[properties.p].keys))
    ELSE IF f.it # <<>> THEN StrictNext(m, f)
    ELSE LET h1 == Alloc(m.h, [keys |-> f.keys, vals |-> f.acc])
             h2 == [h1 EXCEPT ![f.node.p] = SetItem(@, "properties", Ptr(Len(h1)))]
         IN Goto([m EXCEPT !.h = h2], "items")

\* Lines 92-94
StrictItems(m, f) ==
    IF f.pc[2] = "test"
    THEN LET items == Get(m.h[f.node.p], "items") IN
         IF ~is_dict(m.h, items) THEN Goto(m, "anyOf")
         ELSE Call(SetTop(m, Enter(f, <<"items", "ret">>, <<>>, <<>>)),
                   StrictFrame(items, f.root))
    ELSE Goto([m EXCEPT !.h[f.node.p] = SetItem(@, "items", f.acc[1])], "anyOf")

\* Lines 97-102
StrictAnyOf(m, f) ==
    IF f.pc[2] = "test"
    THEN LET any_of == Get(m.h[f.node.p], "anyOf") IN
         IF ~is_list(m.h, any_of) THEN Goto(m, "allOf")
         ELSE SetTop(m, Enter(f, <<"anyOf", "loop">>, m.h[any_of.p].elems, <<>>))
    ELSE IF f.it # <<>> THEN StrictNext(m, f)
    ELSE LET h1 == Alloc(m.h, [elems |-> f.acc])
             h2 == [h1 EXCEPT ![f.node.p] = SetItem(@, "anyOf", Ptr(Len(h1)))]
         IN Goto([m EXCEPT !.h = h2], "allOf")

\* Lines 108-111: json_schema.update(<walked member>); json_schema.pop("allOf")
SpliceSingle(node, member) == Pop(Update(node, member), "allOf")

\* Lines 105-116: a single-member allOf is spliced into the node.
StrictAllOf(m, f) ==
    IF f.pc[2] = "test"
    THEN LET all_of == Get(m.h[f.node.p], "allOf") IN
         IF ~is_list(m.h, all_of) THEN Goto(m, "default")
         ELSE IF Len(m.h[all_of.p].elems) = 1
         THEN Call(SetTop(m, Enter(f, <<"allOf", "ret">>, <<>>, <<>>)),
                   StrictFrame(m.h[all_of.p].elems[1], f.root))
         ELSE SetTop(m, Enter(f, <<"allOf", "loop">>, m.h[all_of.p].elems, <<>>))
    ELSE IF f.pc[2] = "ret"
    THEN Goto([m EXCEPT !.h[f.node.p] = SpliceSingle(@, m.h[f.acc[1].p])], "default")
    ELSE IF f.it # <<>> THEN StrictNext(m, f)
    ELSE LET h1 == Alloc(m.h, [elems |-> f.acc])
             h2 == [h1 EXCEPT ![f.node.p] = SetItem(@, "allOf", Ptr(Len(h1)))]
         IN Goto([m EXCEPT !.h = h2], "default")

\* Lines 121-122
StripNoneDefault(m, f) ==
    LET o == m.h[f.node.p] IN
    IF HasKey(o, "default") /\ GetItem(o, "default") = None
    THEN Goto([m EXCEPT !.h[f.node.p] = Pop(o, "default")], "$ref")
    ELSE Goto(m, "$ref")

\* A slip: {**json_schema, **resolved}, the definition wins.
MergeResolvedDefinitionWins(node, resolved) == Update(node, resolved)

\* Line 140: json_schema.update({**resolved, **json_schema})
MergeResolved(node, resolved) == Update(node, Update(resolved, node))

\* Lines 129-146: a $ref with sibling keys is unravelled and the node is
\* walked again; otherwise the node is returned.
StrictRef(m, f) ==
    IF f.pc[2] = "ret" THEN Return(m, f.acc[1])
    ELSE LET o == m.h[f.node.p]
             ref == Get(o, "$ref")
         IN IF ~(Truthy(m.h, ref) /\ has_more_than_n_keys(o, 1)) THEN Return(m, f.node)
            ELSE IF ~IsStr(ref)
            THEN Throw(m, Raise("AssertionError: non-string $ref", ""))
            ELSE LET resolved == resolve_ref(m.h, f.root, ref.s) IN
                 IF resolved.err # NoError THEN Throw(m, resolved.err)
                 ELSE Call(SetTop([m EXCEPT !.h[f.node.p] =
                                      Pop(MergeResolved(o, m.h[resolved.v.p]), "$ref")],
                                  Enter(f, <<"$ref", "ret">>, <<>>, <<>>)),
                           StrictFrame(f.node, f.root))

StrictStep(m, f) ==
    CASE f.pc[1] = "enter" -> StrictEnter(m, f)
      [] f.pc[1] = "$defs" -> StrictDefs(m, f, "$defs", "definitions")
      [] f.pc[1] = "definitions" -> StrictDefs(m, f, "definitions", "type")
      [] f.pc[1] = "type" ->
            [StrictAdditionalProperties(m, f) EXCEPT !.walked = @ \cup {f.node.p}]
      [] f.pc[1] = "properties" -> StrictProperties(m, f)
      [] f.pc[1] = "items" -> StrictItems(m, f)
      [] f.pc[1] = "anyOf" -> StrictAnyOf(m, f)
      [] f.pc[1] = "allOf" -> StrictAllOf(m, f)
      [] f.pc[1] = "default" -> StripNoneDefault(m, f)
      [] f.pc[1] = "$ref" -> StrictRef(m, f)

----------------------------------------------------------------------------
(* inline_all_refs (lines 184-298): returns a new schema in which every     *)
(* $ref is replaced by its inlined target.  `visited` is a set object.      *)

InlineFrame(node, root, visited) == Frame("inline_all_refs", node, root, visited)

\* A slip: visited.add(ref), one set shared by every branch.
NewVisitedInPlace(h, visited, ref) ==
    [h |-> [h EXCEPT ![visited.p].members = @ \cup {ref}], v |-> visited]

\* Line 232: new_visited = visited | {ref}.  `|` builds a new set object and
\* leaves the caller's set as it was.
NewVisited(h, visited, ref) ==
    [h |-> Alloc(h, [members |-> h[visited.p].members \cup {ref}]),
     v |-> Ptr(NewAddr(h))]

\* A slip: the test of line 221 never succeeds.
IsCircularNever(h, visited, ref) == FALSE

\* Line 221: ref in visited
IsCircular(h, visited, ref) == ref \in h[visited.p].members

\* `x if is_dict(x) else {}` at lines 249, 262, 270, 279, 291.
DictOrEmpty(h, x) ==
    IF is_dict(h, x) THEN [h |-> h, v |-> x]
    ELSE [h |-> Alloc(h, EmptyDict), v |-> Ptr(NewAddr(h))]

\* A comprehension over f.it: the next element is inlined.
InlineNext(m, f) ==
    LET arg == DictOrEmpty(m.h, Head(f.it)) IN
    Call(SetTop([m EXCEPT !.h = arg.h], [f EXCEPT !.it = Tail(@)]),
         InlineFrame(arg.v, f.root, f.visited))

\* Lines 206-213: the defaults of root and visited; a non-dict gives {}.
InlineEnter(m, f) ==
    LET h1 == IF f.visited = None THEN Alloc(m.h, [members |-> {}]) ELSE m.h
        f1 == [f EXCEPT !.root = IF f.root = None THEN f.node ELSE f.root,
                        !.visited = IF f.visited = None THEN Ptr(Len(h1)) ELSE f.visited]
    IN IF ~is_dict(h1, f.node)
       THEN Return([m EXCEPT !.h = Alloc(h1, EmptyDict)], Ptr(NewAddr(h1)))
       ELSE Goto(SetTop([m EXCEPT !.h = h1], f1), "$ref")

\* Line 238: {**inlined, **{k: v for k, v in schema.items() if k != "$ref"}}
MergeInlined(inlined, node) == Update(inlined, Pop(node, "$ref"))

\* Line 243: result = dict(schema), a shallow copy: a new object that holds
\* the same values.
ShallowCopy(h, a) == [h |-> Alloc(h, h[a]), res |-> NewAddr(h)]

\* Lines 216-243: a $ref is replaced by its inlined target; a node without
\* $ref is copied.
InlineRef(m, f) ==
    LET o == m.h[f.node.p]
        ref == Get(o, "$ref")
    IN IF f.pc[2] = "ret"
       THEN Return([m EXCEPT !.h = Alloc(@, MergeInlined(m.h[f.acc[1].p], o))],
                   Ptr(NewAddr(m.h)))
       ELSE IF ~Truthy(m.h, ref)
       THEN LET copy == ShallowCopy(m.h, f.node.p) IN
            Goto(SetTop([m EXCEPT !.h = copy.h], [f EXCEPT !.res = copy.res]),
                 "properties")
       ELSE IF ~IsStr(ref)
       THEN Throw(m, Raise("AssertionError: non-string $ref", ""))
       ELSE IF IsCircular(m.h, f.visited, ref.s)
       THEN Throw(m, CircularReference(ref.s))
       ELSE LET resolved == resolve_ref(m.h, f.root, ref.s) IN
            IF resolved.err # NoError THEN Throw(m, resolved.err)
            ELSE LET nv == NewVisited(m.h, f.visited, ref.s) IN
                 Call(SetTop([m EXCEPT !.h = nv.h],
                             Enter(f, <<"$ref", "ret">>, <<>>, <<>>)),
                      InlineFrame(resolved.v, f.root, nv.v))

\* Lines 246-251, 275-296: the mapping of schemas under `key` is rebuilt.
InlineMapping(m, f, key, next) ==
    IF f.pc[2] = "test"
    THEN LET mapping == Get(m.h[f.res], key) IN
         IF ~is_dict(m.h, mapping) THEN Goto(m, next)
         ELSE SetTop(m, Enter(f, <<key, "loop">>,
                              m.h[mapping.p].vals, m.h[mapping.p].keys))
    ELSE IF f.it # <<>> THEN InlineNext(m, f)
    ELSE LET h1 == Alloc(m.h, [keys |-> f.keys, vals |-> f.acc])
             h2 == [h1 EXCEPT ![f.res] = SetItem(@, key, Ptr(Len(h1)))]
         IN Goto([m EXCEPT !.h = h2], next)

\* A slip: the schema under items is not inlined.
InlineItemsSkipped(m, f) == Goto(m, "anyOf")

\* Lines 254-256
InlineItems(m, f) ==
    IF f.pc[2] = "test"
    THEN LET items == Get(m.h[f.res], "items") IN
         IF ~is_dict(m.h, items) THEN Goto(m, "anyOf")
         ELSE Call(SetTop(m, Enter(f, <<"items", "ret">>, <<>>, <<>>)),
                   InlineFrame(items, f.root, f.visited))
    ELSE Goto([m EXCEPT !.h[f.res] = SetItem(@, "items", f.acc[1])], "anyOf")

\* Lines 259-272: the list of schemas under `key` is rebuilt.
InlineList(m, f, key, next) ==
    IF f.pc[2] = "test"
    THEN LET l == Get(m.h[f.res], key) IN
         IF ~is_list(m.h, l) THEN Goto(m, next)
         ELSE SetTop(m, Enter(f, <<key, "loop">>, m.h[l.p].elems, <<>>))
    ELSE IF f.it # <<>> THEN InlineNext(m, f)
    ELSE LET h1 == Alloc(m.h, [elems |-> f.acc])
             h2 == [h1 EXCEPT ![f.res] = SetItem(@, key, Ptr(Len(h1)))]
         IN Goto([m EXCEPT !.h = h2], next)

InlineStep(m, f) ==
    CASE f.pc[1] = "enter" -> InlineEnter(m, f)
      [] f.pc[1] = "$ref" -> InlineRef(m, f)
      [] f.pc[1] = "properties" -> InlineMapping(m, f, "properties", "items")
      [] f.pc[1] = "items" -> InlineItems(m, f)
      [] f.pc[1] = "anyOf" -> InlineList(m, f, "anyOf", "allOf")
      [] f.pc[1] = "allOf" -> InlineList(m, f, "allOf", "$defs")
      [] f.pc[1] = "$defs" -> InlineMapping(m, f, "$defs", "definitions")
      [] f.pc[1] = "definitions" -> InlineMapping(m, f, "definitions", "return")
      [] f.pc[1] = "return" -> Return(m, Ptr(f.res))

----------------------------------------------------------------------------
(* ensure_strict_json_schema (lines 18-40) *)

\* _EMPTY_SCHEMA (lines 10-15) is one module-level object: the dict at
\* address 1, its "properties" dict at 2 and its "required" list at 3.
EMPTY_SCHEMA == 1

ModuleHeap ==
    << [keys |-> <<"additionalProperties", "type", "properties", "required">>,
        vals |-> <<Bool(FALSE), Str("object"), Ptr(2), Ptr(3)>>],
       EmptyDict,
       EmptyList >>

\* Lines 37-38
DropDefinitions(o) == Pop(Pop(o, "$defs"), "definitions")

\* A slip: the empty schema is not singled out.
IsEmptySchemaNever(h, schema) == FALSE

\* Line 27: schema == {}
IsEmptySchema(h, schema) == is_dict(h, schema) /\ h[schema.p].keys = <<>>

EnsureStep(m, f) ==
    CASE f.pc[1] = "enter" ->
            IF IsEmptySchema(m.h, f.node)
            THEN Return(m, Ptr(EMPTY_SCHEMA))
            ELSE Call(SetTop(m, Enter(f, <<"strict", "ret">>, <<>>, <<>>)),
                      StrictFrame(f.node, f.node))
      [] f.pc[1] = "strict" ->
            Call(SetTop(m, [f EXCEPT !.pc = <<"inline", "ret">>]),
                 InlineFrame(f.acc[1], None, None))
      [] f.pc[1] = "inline" ->
            Return([m EXCEPT !.h[f.acc[2].p] = DropDefinitions(@)], f.acc[2])

\* One step of the interpreter: the top frame advances.
Step(m) ==
    LET f == Top(m) IN
    CASE f.fn = "ensure_strict_json_schema" -> EnsureStep(m, f)
      [] f.fn = "_ensure_strict_json_schema" -> StrictStep(m, f)
      [] f.fn = "inline_all_refs" -> InlineStep(m, f)

RECURSIVE Run(_, _)
\* At most n steps from m, stopping when the outermost call has ended.
Run(m, n) ==
    IF Halted(m) \/ n = 0 THEN m
    ELSE IF n = 1 THEN Step(m)
    ELSE Run(Run(m, n \div 2), n - (n \div 2))

\* The machine at the call of function fn on node.
Start(h, frame) ==
    [h |-> h, stack |-> <<frame>>, ret |-> None, err |-> NoError, walked |-> {}]

\* The call ensure_strict_json_schema(schema) on heap h: the heap it leaves,
\* the value it returns and the exception it raises.
ensure_strict_json_schema(h, schema) ==
    LET m == Run(Start(h, Frame("ensure_strict_json_schema", schema, None, None)),
                 MaxSteps)
    IN [h |-> m.h, v |-> m.ret, err |-> m.err, halted |-> Halted(m),
        walked |-> m.walked]

\* The call inline_all_refs(schema) on heap h, with the defaults of root and
\* visited (lines 192-194).
inline_all_refs(h, schema) ==
    LET m == Run(Start(h, InlineFrame(schema, None, None)), MaxSteps)
    IN [h |-> m.h, v |-> m.ret, err |-> m.err, halted |-> Halted(m)]

\* Step one alone (line 31): the strict walk of the document at schema.
StrictWalk(h, schema) ==
    LET m == Run(Start(h, StrictFrame(schema, schema)), MaxSteps)
    IN [h |-> m.h, v |-> m.ret, err |-> m.err, halted |-> Halted(m),
        walked |-> m.walked]

----------------------------------------------------------------------------
(* Schema documents as trees, and their objects on the heap *)

RECURSIVE Tree(_, _)
RECURSIVE BuildRun(_, _)

IsContainer(t) == "keys" \in DOMAIN t \/ "elems" \in DOMAIN t

Slots(t) == IF "keys" \in DOMAIN t THEN t.vals ELSE t.elems

\* Object o with its i-th value (of a dict) or element (of a list) set to v.
SetSlot(o, i, v) ==
    IF "keys" \in DOMAIN o THEN [o EXCEPT !.vals[i] = v] ELSE [o EXCEPT !.elems[i] = v]

\* The caller builds one object of the document: item [t, at, slot] of the
\* work list b.todo asks for tree t to be built and stored in slot `slot`
\* of the object at address `at` (0 for the root of the document).
BuildStep(b) ==
    LET item == Head(b.todo)
        a == NewAddr(b.h)
        scalars == [j \in 1..Len(Slots(item.t)) |->
                      IF IsContainer(Slots(item.t)[j]) THEN None ELSE Slots(item.t)[j]]
        o == IF "keys" \in DOMAIN item.t
             THEN [keys |-> item.t.keys, vals |-> scalars]
             ELSE [elems |-> scalars]
        h1 == Alloc(b.h, o)
        h2 == IF item.at = 0 THEN h1
              ELSE [h1 EXCEPT ![item.at] = SetSlot(@, item.slot, Ptr(a))]
        children == SelectSeq([j \in 1..Len(Slots(item.t)) |->
                                  [t |-> Slots(item.t)[j], at |-> a, slot |-> j]],
                              LAMBDA c : IsContainer(c.t))
    IN [h |-> h2, todo |-> children \o Tail(b.todo)]

BuildRun(b, n) ==
    IF b.todo = <<>> \/ n = 0 THEN b
    ELSE IF n = 1 THEN BuildStep(b)
    ELSE BuildRun(BuildRun(b, n \div 2), n - (n \div 2))

\* The caller builds the document t on heap h: one fresh object per dict
\* and list, the root first.
AllocTree(h, t) ==
    [h |-> BuildRun([h |-> h, todo |-> <<[t |-> t, at |-> 0, slot |-> 0]>>], MaxSteps).h,
     v |-> Ptr(NewAddr(h))]

\* The value a caller sees at v: what == compares, identities forgotten.
Tree(h, v) ==
    IF is_dict(h, v)
    THEN [keys |-> h[v.p].keys,
          vals |-> [i \in 1..Len(h[v.p].vals) |-> Tree(h, h[v.p].vals[i])]]
    ELSE IF is_list(h, v)
    THEN [elems |-> [i \in 1..Len(h[v.p].elems) |-> Tree(h, h[v.p].elems[i])]]
    ELSE v

Range(s) == {s[i] : i \in 1..Len(s)}

\* The addresses an object points to.
Children(h, a) ==
    LET vs == IF "keys" \in DOMAIN h[a] THEN h[a].vals
              ELSE IF "elems" \in DOMAIN h[a] THEN h[a].elems
              ELSE <<>>
    IN {x.p : x \in {y \in Range(vs) : IsPtr(y)}}

RECURSIVE ReachFrom(_, _, _)
ReachFrom(h, frontier, seen) ==
    IF frontier = {} THEN seen
    ELSE LET next == UNION {Children(h, a) : a \in frontier} \ (seen \cup frontier)
         IN ReachFrom(h, next, seen \cup frontier)

\* The objects reachable from value v.
Reach(h, v) == IF IsPtr(v) THEN ReachFrom(h, {v.p}, {}) ELSE {}

----------------------------------------------------------------------------
(* The documents the caller may pass: the node kinds of a schema, built    *)
(* into a root object with two properties and a definitions container.     *)

Dict(keys, vals) == [keys |-> keys, vals |-> vals]

List(elems) == [elems |-> elems]

Leaf == Dict(<<"type">>, <<Str("string")>>)

LeafNoneDefault == Dict(<<"type", "default">>, <<Str("string"), None>>)

Described == Dict(<<"type", "description">>, <<Str("string"), Str("of definition")>>)

Ref(ptr) == Dict(<<"$ref">>, <<Str(ptr)>>)

DecoratedRef(ptr) == Dict(<<"$ref", "description">>, <<Str(ptr), Str("local")>>)

Array(x) == Dict(<<"type", "items">>, <<Str("array"), x>>)

AnyOf(xs) == Dict(<<"anyOf">>, <<List(xs)>>)

AllOf(xs) == Dict(<<"allOf">>, <<List(xs)>>)

Object(keys, nodes) ==
    Dict(<<"type", "properties">>, <<Str("object"), Dict(keys, nodes)>>)

OpenObject == SetItem(Object(<<"y">>, <<Leaf>>), "additionalProperties", Bool(TRUE))

ClosedObject == SetItem(Object(<<"y">>, <<Leaf>>), "additionalProperties", Bool(FALSE))

\* A property node that carries a definitions container of its own.
NestedDefs(x) == SetItem(Object(<<"z", "y">>, <<Leaf, x>>), "$defs", Dict(<<"C">>, <<Object(<<"y">>, <<Leaf>>)>>))

Containers == {"$defs", "definitions"}

\* The pointer to definition n of the root container c.
Pointer(c, n) ==
    CASE c = "$defs" /\ n = "A" -> "#/$defs/A"
      [] c = "$defs" /\ n = "B" -> "#/$defs/B"
      [] c = "definitions" /\ n = "A" -> "#/definitions/A"
      [] c = "definitions" /\ n = "B" -> "#/definitions/B"

FirstProperties(c) ==
    LET A == Pointer(c, "A")
        B == Pointer(c, "B")
    IN { Leaf, LeafNoneDefault, Ref(A), Ref(B), DecoratedRef(A),
         Array(Ref(A)), AnyOf(<<Ref(A), Leaf>>), AllOf(<<Ref(A)>>),
         SetItem(AllOf(<<Ref(A)>>), "description", Str("local")),
         AllOf(<<Ref(A), Ref(B)>>), AllOf(<<AllOf(<<Leaf, Described>>)>>),
         OpenObject, Array(OpenObject), AnyOf(<<Leaf, OpenObject>>),
         AllOf(<<OpenObject>>), NestedDefs(Leaf),
         NestedDefs(Ref("#/properties/b/$defs/C")) }

SecondProperties(c) ==
    { Leaf, Ref(Pointer(c, "A")), Ref(Pointer(c, "B")), DecoratedRef(Pointer(c, "B")) }

DefinitionsA(c) ==
    LET A == Pointer(c, "A")
        B == Pointer(c, "B")
    IN { Described, Object(<<"y">>, <<Leaf>>), ClosedObject, OpenObject,
         Object(<<"z", "y">>, <<LeafNoneDefault, Ref(B)>>),
         Object(<<"next">>, <<Ref(A)>>),
         Object(<<"next">>, <<DecoratedRef(A)>>),
         Ref(B) }

DefinitionsB(c) ==
    LET A == Pointer(c, "A")
    IN { Described, Object(<<"x">>, <<Ref(A)>>), Array(Ref(A)), DecoratedRef(A) }

\* Root object {type, properties: {b, a}, <c>: {A, B}}.
Document(c, pb, pa, dA, dB) ==
    SetItem(Object(<<"b", "a">>, <<pb, pa>>), c, Dict(<<"A", "B">>, <<dA, dB>>))

\* Roots of other kinds: the empty schema, a root that allows additional
\* properties, a root that is not an object, a root without definitions.
OtherDocuments ==
    { EmptyDict,
      OpenObject,
      Object(<<"b", "a">>, <<Leaf, LeafNoneDefault>>),
      Array(ClosedObject),
      SetItem(AnyOf(<<Ref("#/$defs/A"), Leaf>>), "$defs", Dict(<<"A">>, <<Object(<<"y">>, <<Leaf>>)>>)),
      SetItem(DecoratedRef("#/$defs/A"), "$defs", Dict(<<"A">>, <<Object(<<"y">>, <<Leaf>>)>>)) }

Documents ==
    { Document("$defs", pb, pa, dA, dB) :
        pb \in FirstProperties("$defs"), pa \in SecondProperties("$defs"),
        dA \in DefinitionsA("$defs"), dB \in DefinitionsB("$defs") }
    \cup
    { Document("definitions", pb, Leaf, dA, Described) :
        pb \in FirstProperties("definitions"), dA \in DefinitionsA("definitions") }
    \cup OtherDocuments

----------------------------------------------------------------------------
(* The caller: builds a document, calls ensure_strict_json_schema on it,   *)
(* then either normalizes the returned schema again or mutates some object *)
(* of the returned schema in place.                                        *)

\* No call of the repair pipeline is under way.
RepairIdle ==
    /\ json_str = ""
    /\ type_adapter = None
    /\ enable_repair = TRUE
    /\ max_repair_attempts = 3
    /\ JSON_REPAIR_AVAILABLE = TRUE
    /\ rpc = "idle"
    /\ attempt = 0
    /\ original_error = NoError
    /\ res = None
    /\ raised = NoError
    /\ ran = <<>>

\* No output schema is in use.
BoundaryIdle ==
    /\ output_schema = None
    /\ enable_arg = None
    /\ bpc = "idle"
    /\ out = None
    /\ validator_cache = <<>>

TypeOK ==
    /\ pc \in {"idle", "start", "returned", "raised", "again", "mutated", "later",
              "resolved", "inlined"}
    /\ doc \in 1..Len(heap)
    /\ mutated \in 0..Len(heap)
    /\ walked \subseteq 1..Len(heap)
    /\ (pc \in {"idle", "start"}) = (result = None /\ error = NoError)
    /\ (pc = "raised") = (error # NoError /\ pc \notin {"again", "resolved", "inlined"})

Init ==
    \E t \in Documents :
        LET r == AllocTree(ModuleHeap, t) IN
        /\ heap = r.h
        /\ doc = r.v.p
        /\ heap0 = r.h
        /\ pc = "start"
        /\ result = None
        /\ error = NoError
        /\ value1 = None
        /\ mutated = 0
        /\ walked = {}
        /\ pointer = ""
        /\ inlined_schema = None
        /\ RepairIdle
        /\ BoundaryIdle

\* result = ensure_strict_json_schema(doc)
Normalize ==
    /\ pc = "start"
    /\ LET r == ensure_strict_json_schema(heap, Ptr(doc)) IN
       /\ heap' = r.h
       /\ result' = r.v
       /\ error' = r.err
       /\ pc' = IF r.err = NoError THEN "returned" ELSE "raised"
       /\ value1' = IF r.err = NoError THEN Tree(r.h, r.v) ELSE None
       /\ walked' = r.walked
    /\ UNCHANGED <<doc, heap0, mutated, pointer, inlined_schema>>
    /\ UNCHANGED <<repairVars, boundaryVars>>

\* result = ensure_strict_json_schema(result)
Renormalize ==
    /\ pc = "returned"
    /\ LET r == ensure_strict_json_schema(heap, result) IN
       /\ heap' = r.h
       /\ result' = r.v
       /\ error' = r.err
    /\ pc' = "again"
    /\ UNCHANGED <<doc, heap0, value1, mutated, walked, pointer, inlined_schema>>
    /\ UNCHANGED <<repairVars, boundaryVars>>

\* An in-place change of object a: a new key in a dict, a new element in a list.
MutateObject(o) ==
    IF "keys" \in DOMAIN o THEN SetItem(o, "x-mutated", Bool(TRUE))
    ELSE [elems |-> Append(o.elems, Str("x-mutated"))]

\* The caller mutates one object of the returned schema.
Mutate ==
    /\ pc = "returned"
    /\ \E a \in Reach(heap, result) :
        /\ heap' = [heap EXCEPT ![a] = MutateObject(heap[a])]
        /\ mutated' = a
    /\ pc' = "mutated"
    /\ UNCHANGED <<doc, result, error, heap0, value1, walked, pointer, inlined_schema>>
    /\ UNCHANGED <<repairVars, boundaryVars>>

\* A later call: the caller builds a new document equal to the first one
\* and normalizes it.
NormalizeLater ==
    /\ pc = "mutated"
    /\ LET fresh == AllocTree(heap, Tree(heap0, Ptr(doc)))
           r == ensure_strict_json_schema(fresh.h, fresh.v)
       IN /\ heap' = r.h
          /\ result' = r.v
          /\ error' = r.err
    /\ pc' = "later"
    /\ UNCHANGED <<doc, heap0, value1, mutated, walked, pointer, inlined_schema>>
    /\ UNCHANGED <<repairVars, boundaryVars>>

\* The pointers a caller passes to resolve_ref.
PointerArgs ==
    {"#/$defs/A", "#/definitions/B", "#/properties/b/$defs/C", "#/properties/b",
     "#/properties/b/type", "#/type", "#/type/object", "#/", "#", "$defs/A",
     "/$defs/A"}

\* result = resolve_ref(root=doc, ref=pointer)
ResolveRef ==
    /\ pc = "start"
    /\ \E ref \in PointerArgs :
          LET r == resolve_ref(heap, Ptr(doc), ref) IN
          /\ result' = r.v
          /\ error' = r.err
          /\ pointer' = ref
    /\ pc' = "resolved"
    /\ UNCHANGED <<heap, doc, heap0, value1, mutated, walked, inlined_schema>>
    /\ UNCHANGED <<repairVars, boundaryVars>>

\* The caller builds a new document equal to the first one and has its
\* references inlined without the strict walk:
\* inlined_schema = inline_all_refs(<document>).
InlineAllRefs ==
    /\ pc = "returned"
    /\ LET fresh == AllocTree(heap, Tree(heap0, Ptr(doc)))
           r == inline_all_refs(fresh.h, fresh.v)
       IN /\ heap' = r.h
          /\ inlined_schema' = r.v
          /\ error' = r.err
    /\ pc' = "inlined"
    /\ UNCHANGED <<doc, result, heap0, value1, mutated, walked, pointer>>
    /\ UNCHANGED <<repairVars, boundaryVars>>

Next ==
    Normalize \/ Renormalize \/ Mutate \/ NormalizeLater \/ ResolveRef \/ InlineAllRefs

Spec == Init /\ [][Next]_vars

----------------------------------------------------------------------------
(* The repair pipeline (src/src/agents/util/_json_repair.py).               *)
(*                                                                         *)
(* json.loads and json.dumps are the standard library's and are modelled   *)
(* by what they do on the texts and values of the model.  json_repair and  *)
(* the TypeAdapter are outside the repository: what json_repair answers is *)
(* chosen among the answers its interface allows, and a TypeAdapter is one *)
(* of three validators.                                                    *)

\* The values of JSON documents: null is Python's None, a number n, a
\* string, the object {"a": v} and the object {"response": v}.
Num(n) == [n |-> n]

JObject(v) == [a |-> v]

Wrapper(v) == [response |-> v]

JSONDecodeError(text) == Raise("JSONDecodeError", text)

ValidationError(text) == Raise("ValidationError", text)

RuntimeError(text) == Raise("RuntimeError", text)

\* A text of 1000 opening brackets: arrays nested deeper than the
\* interpreter's recursion limit.
DeeplyNested == "[[[[[[[[ ... (1000 brackets)"

\* json.loads(text)
json_loads(text) ==
    CASE text \in {"{\"a\":1}", "{\"a\": 1}"} -> [v |-> JObject(Num(1)), err |-> NoError]
      [] text \in {"{\"a\":\"x\"}", "{\"a\": \"x\"}"} ->
            [v |-> JObject(Str("x")), err |-> NoError]
      [] text \in {"{\"response\":1}", "{\"response\": 1}"} ->
            [v |-> Wrapper(Num(1)), err |-> NoError]
      [] text \in {"null", " null "} -> [v |-> None, err |-> NoError]
      [] text = "\"\"" -> [v |-> Str(""), err |-> NoError]
      [] text = DeeplyNested -> [v |-> None, err |-> RecursionError]
      [] OTHER -> [v |-> None, err |-> JSONDecodeError(text)]

\* json.dumps(obj, ensure_ascii=False)
json_dumps(obj) ==
    CASE obj = JObject(Num(1)) -> "{\"a\": 1}"
      [] obj = JObject(Str("x")) -> "{\"a\": \"x\"}"
      [] obj = Wrapper(Num(1)) -> "{\"response\": 1}"
      [] obj = None -> "null"
      [] obj = Str("") -> "\"\""

\* not repaired_json or repaired_json.strip() == ""  (line 172)
IsBlank(text) == text \in {"", " "}

\* The validators: IntA is a model class with one field a: int, Optional
\* is Optional[dict], Faulty has a validator that fails with an exception
\* of its own on the value "x", OutputType is the TypedDict
\* {"response": int} that AgentOutputSchema builds for the output type int.
TypeAdapter(name) == [adapter |-> name]

\* type_adapter.validate_python(obj); text is the text obj was parsed from.
validate_python(adapter, obj, text) ==
    CASE adapter.adapter = "IntA" ->
            IF obj = JObject(Num(1))
            THEN [v |-> [model |-> "IntA", a |-> Num(1)], err |-> NoError]
            ELSE [v |-> None, err |-> ValidationError(text)]
      [] adapter.adapter = "Optional" ->
            IF obj = Str("")
            THEN [v |-> None, err |-> ValidationError(text)]
            ELSE [v |-> obj, err |-> NoError]
      [] adapter.adapter = "Faulty" ->
            IF obj = JObject(Str("x"))
            THEN [v |-> None, err |-> RuntimeError(text)]
            ELSE IF obj = JObject(Num(1))
            THEN [v |-> obj, err |-> NoError]
            ELSE [v |-> None, err |-> ValidationError(text)]
      [] adapter.adapter = "OutputType" ->
            IF obj = Wrapper(Num(1))
            THEN [v |-> obj, err |-> NoError]
            ELSE [v |-> None, err |-> ValidationError(text)]

\* Lines 27-44
JsonRepairResult(success, repaired_json, parsed_object, error_, repair_applied, repair_details) ==
    [success |-> success, repaired_json |-> repaired_json,
     parsed_object |-> parsed_object, original_error |-> error_,
     repair_applied |-> repair_applied, repair_details |-> repair_details]

\* f"{repair_method}（第{attempt}次尝试）"  (lines 193, 206)
SucceededAt(repair_method, n) == [repair_method |-> repair_method, attempt |-> n]

\* f"修复失败，已尝试 {max_attempts} 次"  (line 223)
FailedAfter(n) == [failed |-> TRUE, attempts |-> n]

\* The texts a caller passes.
Texts ==
    {"{\"a\":1}", "{\"a\":\"x\"}", "null", "\"\"", "{a: 1,}", "not json at all",
     DeeplyNested}

\* The type adapters a caller passes.
Adapters == {None, TypeAdapter("IntA"), TypeAdapter("Optional"), TypeAdapter("Faulty")}

\* What a call of json_repair may answer: it raises, it returns a text
\* (repair_json) or it returns a value (loads, repair_json with
\* return_objects=True).
Raises == [raises |-> TRUE]

TextAnswers ==
    {Raises} \cup {Str(t) : t \in {"", " ", "{\"a\": 1}", "{\"a\": \"x\"}", "null",
                                    "{a: 1,}", "{\"response\": 1}"}}

ObjectAnswers ==
    {Raises, None, JObject(Num(1)), JObject(Str("x")), Str(""), Wrapper(Num(1))}

\* Lines 143-169: the candidate text of attempt n, x being the answer of
\* the call that returns a value and y the answer of repair_json(json_str).
Candidate(n, x, y) ==
    IF n = 1
    THEN IF y = Raises THEN [kind |-> "exception", repair_method |-> "basic"]
         ELSE [kind |-> "text", text |-> y.s, repair_method |-> "basic"]
    ELSE IF n = 2
    THEN IF x # Raises
         THEN [kind |-> "text", text |-> json_dumps(x), repair_method |-> "loads"]
         ELSE IF y = Raises
         THEN [kind |-> "exception", repair_method |-> "basic after loads failed"]
         ELSE [kind |-> "text", text |-> y.s,
               repair_method |-> "basic after loads failed"]
    ELSE IF x = Raises \/ x = None
         THEN [kind |-> "break", repair_method |-> "return_objects"]
         ELSE [kind |-> "text", text |-> json_dumps(x),
               repair_method |-> "return_objects"]

\* A slip: the result carries the caller's text, not the candidate.
SuccessOriginalText(n, c, obj) ==
    [kind |-> "return", why |-> "success",
     res |-> JsonRepairResult(TRUE, Str(json_str), obj, None, TRUE,
                              SucceededAt(c.repair_method, n))]

\* Lines 188-194 and 201-207: attempt n returns obj, got from candidate c.
Success(n, c, obj) ==
    [kind |-> "return", why |-> "success",
     res |-> JsonRepairResult(TRUE, Str(c.text), obj, None, TRUE,
                              SucceededAt(c.repair_method, n))]

\* A slip: a candidate the validator rejects ends the loop.
RejectedBreaks == [kind |-> "break", why |-> "invalid"]

\* Lines 195-198: the validator rejected the candidate.
Rejected == [kind |-> "continue", why |-> "invalid"]

\* Lines 171-215: what attempt n does with its candidate c: it returns a
\* result, or goes on to the next attempt, or leaves the loop.
Verdict(n, c) ==
    IF c.kind = "exception" THEN [kind |-> "continue", why |-> "exception"]
    ELSE IF c.kind = "break" THEN [kind |-> "break", why |-> "break"]
    ELSE IF IsBlank(c.text) THEN [kind |-> "continue", why |-> "empty"]
    ELSE LET parsed == json_loads(c.text) IN
         IF parsed.err.kind = "JSONDecodeError"
         THEN [kind |-> "continue", why |-> "syntax"]
         ELSE IF parsed.err # NoError THEN [kind |-> "continue", why |-> "exception"]
         ELSE IF type_adapter # None
         THEN LET validated == validate_python(type_adapter, parsed.v, c.text) IN
              IF validated.err = NoError THEN Success(n, c, validated.v)
              ELSE IF validated.err.kind = "ValidationError" THEN Rejected
              ELSE [kind |-> "continue", why |-> "exception"]
         ELSE Success(n, c, parsed.v)

RepairInit ==
    /\ heap = ModuleHeap
    /\ doc = EMPTY_SCHEMA
    /\ heap0 = ModuleHeap
    /\ pc = "idle"
    /\ result = None
    /\ error = NoError
    /\ value1 = None
    /\ mutated = 0
    /\ walked = {}
    /\ pointer = ""
    /\ inlined_schema = None
    /\ json_str \in Texts
    /\ type_adapter \in Adapters
    /\ enable_repair \in BOOLEAN
    /\ max_repair_attempts \in -1..MaxAttempts
    /\ JSON_REPAIR_AVAILABLE \in BOOLEAN
    /\ rpc = "call"
    /\ attempt = 0
    /\ original_error = NoError
    /\ res = None
    /\ raised = NoError
    /\ ran = <<>>
    /\ BoundaryIdle

\* A slip: the parsed value is returned in place of the validated one.
ParsedDirectlyUnvalidated(parsed_obj) ==
    IF type_adapter # None
    THEN LET validated == validate_python(type_adapter, parsed_obj, json_str) IN
         IF validated.err = NoError
         THEN [kind |-> "return",
               res |-> JsonRepairResult(TRUE, Str(json_str), parsed_obj,
                                        None, FALSE, None)]
         ELSE IF validated.err.kind = "ValidationError"
         THEN [kind |-> "return",
               res |-> JsonRepairResult(FALSE, None, None, validated.err, FALSE, None)]
         ELSE [kind |-> "raise", err |-> validated.err]
    ELSE [kind |-> "return",
          res |-> JsonRepairResult(TRUE, Str(json_str), parsed_obj, None, FALSE, None)]

\* A slip: a value the validator rejects is sent to the repair loop.
ParsedDirectlyRepaired(parsed_obj) ==
    IF type_adapter # None
    THEN LET validated == validate_python(type_adapter, parsed_obj, json_str) IN
         IF validated.err = NoError
         THEN [kind |-> "return",
               res |-> JsonRepairResult(TRUE, Str(json_str), validated.v,
                                        None, FALSE, None)]
         ELSE IF validated.err.kind = "ValidationError"
         THEN [kind |-> "repair", err |-> validated.err]
         ELSE [kind |-> "raise", err |-> validated.err]
    ELSE [kind |-> "return",
          res |-> JsonRepairResult(TRUE, Str(json_str), parsed_obj, None, FALSE, None)]

\* Lines 72-95: json.loads(json_str) returned parsed_obj.
ParsedDirectly(parsed_obj) ==
    IF type_adapter # None
    THEN LET validated == validate_python(type_adapter, parsed_obj, json_str) IN
         IF validated.err = NoError
         THEN [kind |-> "return",
               res |-> JsonRepairResult(TRUE, Str(json_str), validated.v,
                                        None, FALSE, None)]
         ELSE IF validated.err.kind = "ValidationError"
         THEN [kind |-> "return",
               res |-> JsonRepairResult(FALSE, None, None, validated.err, FALSE, None)]
         ELSE [kind |-> "raise", err |-> validated.err]
    ELSE [kind |-> "return",
          res |-> JsonRepairResult(TRUE, Str(json_str), parsed_obj, None, FALSE, None)]

\* A slip: the test of line 101 is left out.
NotParsedAlwaysRepaired(e) == [kind |-> "repair", err |-> e]

\* A slip: the failed result of line 102 carries the caller's text.
NotParsedExposesText(e) ==
    IF ~enable_repair \/ ~JSON_REPAIR_AVAILABLE
    THEN [kind |-> "return",
          res |-> JsonRepairResult(FALSE, Str(json_str), None, e, FALSE, None)]
    ELSE [kind |-> "repair", err |-> e]

\* Lines 97-115: json.loads(json_str) raised e.
NotParsed(e) ==
    IF ~enable_repair \/ ~JSON_REPAIR_AVAILABLE
    THEN [kind |-> "return",
          res |-> JsonRepairResult(FALSE, None, None, e, FALSE, None)]
    ELSE [kind |-> "repair", err |-> e]

\* Lines 67-115: what repair_and_validate_json does before the loop of
\* _attempt_json_repair: it returns a result, lets through an exception
\* that is neither a JSONDecodeError of json.loads nor a ValidationError of
\* the validator, or enters the loop.
FirstParse ==
    LET parsed == json_loads(json_str) IN
    IF parsed.err = NoError THEN ParsedDirectly(parsed.v)
    ELSE IF parsed.err.kind = "JSONDecodeError" THEN NotParsed(parsed.err)
    ELSE [kind |-> "raise", err |-> parsed.err]

\* Lines 65-115: repair_and_validate_json up to its return or to the loop of
\* _attempt_json_repair.
repair_and_validate_json ==
    /\ rpc = "call"
    /\ LET first == FirstParse IN
       /\ rpc' = CASE first.kind = "return" -> "done"
                   [] first.kind = "raise" -> "raised"
                   [] first.kind = "repair" -> "repairing"
       /\ res' = IF first.kind = "return" THEN first.res ELSE res
       /\ raised' = IF first.kind = "raise" THEN first.err ELSE raised
       /\ attempt' = IF first.kind = "repair" THEN 1 ELSE attempt
       /\ original_error' = IF first.kind = "repair" THEN first.err ELSE original_error
    /\ UNCHANGED <<json_str, type_adapter, enable_repair, max_repair_attempts,
                   JSON_REPAIR_AVAILABLE, ran>>
    /\ UNCHANGED <<normVars, boundaryVars>>

\* Lines 138-215: one iteration of the loop of _attempt_json_repair.
attempt_json_repair ==
    /\ rpc = "repairing"
    /\ attempt <= max_repair_attempts
    /\ \E x \in ObjectAnswers, y \in TextAnswers :
          LET c == Candidate(attempt, x, y)
              verdict == Verdict(attempt, c)
          IN /\ ran' = Append(ran, [attempt |-> attempt,
                                    repair_method |-> c.repair_method,
                                    text |-> IF c.kind = "text" THEN Str(c.text) ELSE None,
                                    outcome |-> verdict.why])
             /\ rpc' = CASE verdict.kind = "return" -> "done"
                         [] verdict.kind = "break" -> "exhausted"
                         [] verdict.kind = "continue" -> "repairing"
             /\ res' = IF verdict.kind = "return" THEN verdict.res ELSE res
             /\ attempt' = IF verdict.kind = "continue" THEN attempt + 1 ELSE attempt
    /\ UNCHANGED <<json_str, type_adapter, enable_repair, max_repair_attempts,
                   JSON_REPAIR_AVAILABLE, original_error, raised>>
    /\ UNCHANGED <<normVars, boundaryVars>>

\* A slip: the result of the failed repair carries no original_error.
repair_failed_without_error ==
    /\ \/ rpc = "exhausted"
       \/ rpc = "repairing" /\ attempt > max_repair_attempts
    /\ res' = JsonRepairResult(FALSE, None, None, None, TRUE,
                               FailedAfter(max_repair_attempts))
    /\ rpc' = "done"
    /\ UNCHANGED <<json_str, type_adapter, enable_repair, max_repair_attempts,
                   JSON_REPAIR_AVAILABLE, attempt, original_error, raised, ran>>
    /\ UNCHANGED <<normVars, boundaryVars>>

\* Lines 217-224: the loop has ended without a result.
repair_failed ==
    /\ \/ rpc = "exhausted"
       \/ rpc = "repairing" /\ attempt > max_repair_attempts
    /\ res' = JsonRepairResult(FALSE, None, None, original_error, TRUE,
                               FailedAfter(max_repair_attempts))
    /\ rpc' = "done"
    /\ UNCHANGED <<json_str, type_adapter, enable_repair, max_repair_attempts,
                   JSON_REPAIR_AVAILABLE, attempt, original_error, raised, ran>>
    /\ UNCHANGED <<normVars, boundaryVars>>

RepairNext == repair_and_validate_json \/ attempt_json_repair \/ repair_failed

RepairSpec == RepairInit /\ [][RepairNext]_vars

RepairTypeOK ==
    /\ rpc \in {"call", "repairing", "exhausted", "done", "raised"}
    /\ attempt \in 0..(MaxAttempts + 1)
    /\ (rpc = "done") = (res # None)
    /\ (rpc = "raised") = (raised # NoError)
    /\ Len(ran) <= MaxAttempts

----------------------------------------------------------------------------
(* The output schemas (src/src/agents/agent_output.py and                  *)
(* src/src/agents/json_object_output.py): the callers of the pipeline.     *)
(* A message of an exception is kept as the text of its format string and  *)
(* the values the format string interpolates.                              *)

\* _WRAPPER_DICT_KEY  (agent_output.py line 14)
WRAPPER_DICT_KEY == "response"

\* ModelBehaviorError(message), raised `from cause` or without a cause.
ModelBehaviorError(message, cause) ==
    [kind |-> "ModelBehaviorError", message |-> message, cause |-> cause]

\* TypeError: <function>() got an unexpected keyword argument '<keyword>'
UnexpectedKeyword(keyword) ==
    Raise("TypeError: got an unexpected keyword argument", keyword)

Returns(v) == [kind |-> "return", v |-> v]

Raised(e) == [kind |-> "raise", err |-> e]

\* The output types given to AgentOutputSchema: int, which is no JSON
\* object and is wrapped, and the model class IntA.
OutputTypes == {"int", "IntA"}

\* _is_subclass_of_base_model_or_dict(output_type)
IsSubclassOfBaseModelOrDict(output_type) == output_type = "IntA"

\* agent_output.py lines 80-122: the object AgentOutputSchema(output_type,
\* enable_json_repair=enable_json_repair) builds.
AgentOutputSchema(output_type, enable_json_repair) ==
    LET is_wrapped == ~IsSubclassOfBaseModelOrDict(output_type) IN
    [class |-> "AgentOutputSchema",
     output_type |-> output_type,
     enable_json_repair |-> enable_json_repair,
     is_wrapped |-> is_wrapped,
     type_adapter |-> IF is_wrapped THEN TypeAdapter("OutputType")
                      ELSE TypeAdapter(output_type)]

\* json_object_output.py lines 336-343: the adapter of target_type is put
\* in the cache unless it is there.
CacheInsert(cache, target_type) ==
    IF target_type \in Range(cache) THEN cache ELSE Append(cache, target_type)

\* json_object_output.py lines 306-334: the object
\* JsonObjectOutputSchema(target_type) builds.
JsonObjectOutputSchema(target_type) ==
    [class |-> "JsonObjectOutputSchema",
     output_type |-> target_type,
     type_adapter |-> TypeAdapter(target_type)]

\* The texts a model answers with.
BoundaryTexts ==
    {"{\"a\":1}", "{\"a\":\"x\"}", "{a: 1,}", "{\"response\":1}", "{ response: 1 }",
     "null", "not json at all", DeeplyNested}

\* f"JSON 解析失败，原始错误: {result.original_error}" and, when a repair was
\* applied, f"，修复尝试也失败: {result.repair_details}"  (lines 277-279)
RepairFailedMessage(r) ==
    [text |-> "JSON parsing failed, original error: {original_error}",
     original_error |-> r.original_error,
     repair_details |-> IF r.repair_applied THEN r.repair_details ELSE None,
     target_type |-> None]

\* _json_repair.py lines 260-281: what validate_json_with_repair does with
\* the outcome of repair_and_validate_json; an exception that left
\* repair_and_validate_json leaves validate_json_with_repair too.
validate_json_with_repair ==
    IF rpc = "raised" THEN Raised(raised)
    ELSE IF res.success THEN Returns(res.parsed_object)
    ELSE Raised(ModelBehaviorError(RepairFailedMessage(res), res.original_error))

\* isinstance(validated, dict)
IsDict(validated) == DOMAIN validated \in {{"a"}, {WRAPPER_DICT_KEY}}

\* A slip: the wrapper mapping is returned as it is.
UnwrapSkipped(validated) == Returns(validated)

\* agent_output.py lines 215-238: the value of a wrapped output type is
\* taken out of the wrapper.
Unwrap(validated) ==
    IF output_schema.is_wrapped
    THEN IF ~IsDict(validated)
         THEN Raised(ModelBehaviorError(
                  [text |-> "Expected a dict, got {type} for JSON: {json_str}",
                   original_error |-> None, repair_details |-> None,
                   target_type |-> None], None))
         ELSE IF WRAPPER_DICT_KEY \notin DOMAIN validated
         THEN Raised(ModelBehaviorError(
                  [text |-> "Could not find key response in JSON: {json_str}",
                   original_error |-> None, repair_details |-> None,
                   target_type |-> None], None))
         ELSE Returns(validated[WRAPPER_DICT_KEY])
    ELSE Returns(validated)

BoundaryInit ==
    /\ heap = ModuleHeap
    /\ doc = EMPTY_SCHEMA
    /\ heap0 = ModuleHeap
    /\ pc = "idle"
    /\ result = None
    /\ error = NoError
    /\ value1 = None
    /\ mutated = 0
    /\ walked = {}
    /\ pointer = ""
    /\ inlined_schema = None
    /\ json_str = ""
    /\ type_adapter = None
    /\ enable_repair = TRUE
    /\ max_repair_attempts = 3
    /\ JSON_REPAIR_AVAILABLE \in BOOLEAN
    /\ rpc = "idle"
    /\ attempt = 0
    /\ original_error = NoError
    /\ res = None
    /\ raised = NoError
    /\ ran = <<>>
    /\ output_schema = None
    /\ enable_arg = None
    /\ bpc = "new"
    /\ out = None
    /\ validator_cache = <<>>

\* output_schema = AgentOutputSchema(output_type, enable_json_repair=...)
AgentOutputSchema_init ==
    /\ bpc = "new"
    /\ \E output_type \in OutputTypes, enable_json_repair \in BOOLEAN :
          output_schema' = AgentOutputSchema(output_type, enable_json_repair)
    /\ bpc' = "ready"
    /\ UNCHANGED <<enable_arg, out, validator_cache>>
    /\ UNCHANGED <<normVars, repairVars>>

\* output_schema = JsonObjectOutputSchema(IntA), or the same with the
\* keyword enable_json_repair=False, which __init__ (lines 306-311) does
\* not have.
JsonObjectOutputSchema_init ==
    /\ bpc = "new"
    /\ \E keyword \in {"", "enable_json_repair"} :
          IF keyword = ""
          THEN /\ output_schema' = JsonObjectOutputSchema("IntA")
               /\ validator_cache' = CacheInsert(validator_cache, "IntA")
               /\ bpc' = "ready"
               /\ out' = out
          ELSE /\ out' = Raised(UnexpectedKeyword(keyword))
               /\ bpc' = "raised"
               /\ UNCHANGED <<output_schema, validator_cache>>
    /\ UNCHANGED enable_arg
    /\ UNCHANGED <<normVars, repairVars>>

\* agent_output.py lines 196-214 and _json_repair.py lines 253-258:
\* output_schema.validate_json(json_str, enable_repair) up to the call of
\* repair_and_validate_json.
validate_json ==
    /\ bpc = "ready"
    /\ output_schema.class = "AgentOutputSchema"
    /\ \E text \in BoundaryTexts, enable \in {None, Bool(TRUE), Bool(FALSE)} :
          /\ json_str' = text
          /\ enable_arg' = enable
          /\ enable_repair' = IF enable # None THEN enable.b
                               ELSE output_schema.enable_json_repair
    /\ type_adapter' = output_schema.type_adapter
    /\ max_repair_attempts' = 3
    /\ rpc' = "call"
    /\ bpc' = "validating"
    /\ UNCHANGED <<JSON_REPAIR_AVAILABLE, attempt, original_error, res, raised, ran>>
    /\ UNCHANGED <<output_schema, out, validator_cache>>
    /\ UNCHANGED normVars

\* _json_repair.py lines 260-281 and agent_output.py lines 215-238:
\* repair_and_validate_json has ended, validate_json returns or raises.
validate_json_return ==
    /\ bpc = "validating"
    /\ rpc \in {"done", "raised"}
    /\ LET validated == validate_json_with_repair IN
       /\ out' = IF validated.kind = "raise" THEN validated ELSE Unwrap(validated.v)
       /\ bpc' = IF validated.kind = "raise" \/ Unwrap(validated.v).kind = "raise"
                 THEN "raised" ELSE "returned"
    /\ UNCHANGED <<output_schema, enable_arg, validator_cache>>
    /\ UNCHANGED <<normVars, repairVars>>

\* json_object_output.py lines 389-425: validate_json of
\* JsonObjectOutputSchema, which has no enable_repair parameter.
JsonObjectOutputSchema_validate_json ==
    /\ bpc = "ready"
    /\ output_schema.class = "JsonObjectOutputSchema"
    /\ \E text \in BoundaryTexts, enable \in {None, Bool(TRUE)} :
          /\ json_str' = text
          /\ enable_arg' = enable
          /\ out' =
               IF enable # None
               THEN Raised(UnexpectedKeyword("enable_repair"))
               ELSE LET json_obj == json_loads(text) IN
                    IF json_obj.err.kind = "JSONDecodeError"
                    THEN Raised(ModelBehaviorError(
                             [text |-> "LLM output is not valid JSON: {e}",
                              original_error |-> json_obj.err,
                              repair_details |-> None, target_type |-> None],
                             json_obj.err))
                    ELSE IF json_obj.err # NoError THEN Raised(json_obj.err)
                    ELSE LET validated_obj == validate_python(output_schema.type_adapter,
                                                              json_obj.v, text) IN
                         IF validated_obj.err = NoError THEN Returns(validated_obj.v)
                         ELSE IF validated_obj.err.kind = "ValidationError"
                         THEN Raised(ModelBehaviorError(
                                  [text |-> "LLM JSON does not match the expected type {target_type}: {e}",
                                   original_error |-> validated_obj.err,
                                   repair_details |-> None,
                                   target_type |-> Str(output_schema.output_type)],
                                  validated_obj.err))
                         ELSE Raised(validated_obj.err)
    /\ bpc' = IF out'.kind = "raise" THEN "raised" ELSE "returned"
    /\ UNCHANGED <<output_schema, validator_cache>>
    /\ UNCHANGED <<type_adapter, enable_repair, max_repair_attempts,
                   JSON_REPAIR_AVAILABLE, rpc, attempt, original_error, res, raised, ran>>
    /\ UNCHANGED normVars

BoundaryNext ==
    \/ AgentOutputSchema_init
    \/ JsonObjectOutputSchema_init
    \/ validate_json
    \/ repair_and_validate_json
    \/ attempt_json_repair
    \/ repair_failed
    \/ validate_json_return
    \/ JsonObjectOutputSchema_validate_json

BoundarySpec == BoundaryInit /\ [][BoundaryNext]_vars

BoundaryTypeOK ==
    /\ bpc \in {"idle", "new", "ready", "validating", "returned", "raised", "caching"}
    /\ (bpc \in {"returned", "raised"}) = (out # None)
    /\ (bpc = "returned") => out.kind = "return"
    /\ (bpc = "raised") => out.kind = "raise"
    /\ Len(ran) <= 3

\* The types a caller builds a JsonObjectOutputSchema for.
TargetTypes == {"Wrapper0", "Wrapper1", "Wrapper2", "Wrapper3", "Wrapper4"}

CacheInit ==
    /\ heap = ModuleHeap
    /\ doc = EMPTY_SCHEMA
    /\ heap0 = ModuleHeap
    /\ pc = "idle"
    /\ result = None
    /\ error = NoError
    /\ value1 = None
    /\ mutated = 0
    /\ walked = {}
    /\ pointer = ""
    /\ inlined_schema = None
    /\ RepairIdle
    /\ output_schema = None
    /\ enable_arg = None
    /\ bpc = "caching"
    /\ out = None
    /\ validator_cache = <<>>

\* json_object_output.py lines 336-343: one more JsonObjectOutputSchema is
\* built, for some target type.
init_type_adapter ==
    /\ bpc = "caching"
    /\ \E target_type \in TargetTypes :
          validator_cache' = CacheInsert(validator_cache, target_type)
    /\ UNCHANGED <<output_schema, enable_arg, bpc, out>>
    /\ UNCHANGED <<normVars, repairVars>>

\* items[len(items)//2:]  (line 469)
NewerHalf(items) == SubSeq(items, (Len(items) \div 2) + 1, Len(items))

\* json_object_output.py lines 464-471: cleanup_cache(max_size), which
\* returns None.
cleanup_cache(max_size) ==
    /\ bpc = "caching"
    /\ validator_cache' = IF Len(validator_cache) > max_size
                          THEN NewerHalf(validator_cache)
                          ELSE validator_cache
    /\ out' = Returns(None)
    /\ UNCHANGED <<output_schema, enable_arg, bpc>>
    /\ UNCHANGED <<normVars, repairVars>>

CacheNext ==
    \/ init_type_adapter
    \/ \E max_size \in 0..MaxSize : cleanup_cache(max_size)

CacheSpec == CacheInit /\ [][CacheNext]_vars

----------------------------------------------------------------------------
(* Vocabulary of the properties *)

\* The dict objects reachable from value v.
Dicts(h, v) == {a \in Reach(h, v) : "keys" \in DOMAIN h[a]}

\* The schema of property k of the object schema at v, None without one.
Prop(h, v, k) ==
    IF is_dict(h, v) /\ is_dict(h, Get(h[v.p], "properties"))
    THEN Get(h[Get(h[v.p], "properties").p], k)
    ELSE None

\* The schema that pointer p names in the document at root, None without one.
Target(h, root, p) ==
    LET target == resolve_ref(h, root, p) IN
    IF target.err = NoError THEN target.v ELSE None

IsObjectNode(o) == "keys" \in DOMAIN o /\ Get(o, "type") = Str("object")

\* A node that is nothing but a reference.
IsBareRef(h, v) == is_dict(h, v) /\ h[v.p].keys = <<"$ref">>

\* The pointers of the $ref nodes contained in the schema at v.
Pointers(h, v) ==
    {GetItem(h[a], "$ref").s : a \in {d \in Dicts(h, v) : HasKey(h[d], "$ref")}}

\* The pointers met when the target of pointer p is inlined.
PointersOf(h, root, p) ==
    LET target == resolve_ref(h, root, p) IN
    IF target.err = NoError THEN Pointers(h, target.v) ELSE {}

RECURSIVE PointersFrom(_, _, _, _)
\* The pointers met, at any depth, when the targets of `frontier` are inlined.
PointersFrom(h, root, frontier, seen) ==
    IF frontier = {} THEN seen
    ELSE LET next == UNION {PointersOf(h, root, p) : p \in frontier} \ (seen \cup frontier)
         IN PointersFrom(h, root, next, seen \cup frontier)

\* The pointers that lie on a cycle of references of the document at root.
CyclicPointers(h, root) ==
    {p \in Pointers(h, root) : p \in PointersFrom(h, root, PointersOf(h, root, p), {})}

\* The caller's document as step one (the strict walk) leaves it.
Walked == StrictWalk(heap0, Ptr(doc))

Finished == pc \in {"returned", "raised"}

\* The names of the properties of the documents, in lexicographic order.
KeyOrder == <<"a", "b", "next", "x", "y", "z">>

\* sorted(keys)
Sorted(keys) == SelectSeq(KeyOrder, LAMBDA k : k \in Range(keys))

Names(h, l) == [i \in 1..Len(h[l.p].elems) |-> h[l.p].elems[i].s]

----------------------------------------------------------------------------
(* Properties *)

\* C1: a schema returned by ensure_strict_json_schema contains no $ref node
\* at any depth.
RefFree ==
    pc = "returned" => \A a \in Dicts(heap, result) : ~HasKey(heap[a], "$ref")

\* The call returned for a document that had $ref nodes, one of them under
\* items and one inside a definition.
RefFreeWitness ==
    /\ pc = "returned"
    /\ \E a \in Dicts(heap0, Ptr(doc)) :
          /\ HasKey(heap0[a], "items")
          /\ IsBareRef(heap0, GetItem(heap0[a], "items"))
    /\ \E p \in Pointers(heap0, Ptr(doc)) : PointersOf(heap0, Ptr(doc), p) # {}

\* C2: a schema returned by ensure_strict_json_schema contains no $defs or
\* definitions container at any depth, also when the input carried one
\* inside a property node.
NoDefinitionsAnywhere ==
    pc = "returned" =>
        \A a \in Dicts(heap, result) :
            ~HasKey(heap[a], "$defs") /\ ~HasKey(heap[a], "definitions")

\* C3 as stated: in a returned schema every object node has required equal
\* to the sorted keys of its properties and additionalProperties false.
RequiredSorted ==
    pc = "returned" =>
        \A a \in Dicts(heap, result) :
            IsObjectNode(heap[a]) =>
                /\ is_dict(heap, Get(heap[a], "properties"))
                /\ is_list(heap, Get(heap[a], "required"))
                /\ Names(heap, Get(heap[a], "required"))
                      = Sorted(heap[GetItem(heap[a], "properties").p].keys)
                /\ Get(heap[a], "additionalProperties") = Bool(FALSE)

\* C3 amended: in a returned schema every object node has required equal to
\* the keys of its properties in their insertion order, and
\* additionalProperties false.
RequiredInOrder ==
    pc = "returned" =>
        \A a \in Dicts(heap, result) :
            IsObjectNode(heap[a]) =>
                /\ is_dict(heap, Get(heap[a], "properties"))
                /\ is_list(heap, Get(heap[a], "required"))
                /\ Names(heap, Get(heap[a], "required"))
                      = heap[GetItem(heap[a], "properties").p].keys
                /\ Get(heap[a], "additionalProperties") = Bool(FALSE)

\* The call returned a schema whose root has its properties out of order
\* and one of whose properties is an object inlined from a definition that
\* did not declare additionalProperties.
RequiredInOrderWitness ==
    /\ pc = "returned"
    /\ is_dict(heap, Get(heap[result.p], "properties"))
    /\ heap[Get(heap[result.p], "properties").p].keys = <<"b", "a">>
    /\ IsBareRef(heap0, Prop(heap0, Ptr(doc), "b"))
    /\ is_dict(heap, Prop(heap, result, "b"))
    /\ IsObjectNode(heap[Prop(heap, result, "b").p])
    /\ \E p \in Pointers(heap0, Prop(heap0, Ptr(doc), "b")) :
          /\ is_dict(heap0, Target(heap0, Ptr(doc), p))
          /\ ~HasKey(heap0[Target(heap0, Ptr(doc), p).p], "additionalProperties")

\* C4: normalizing a schema that normalize returned succeeds and returns an
\* equal schema.
Idempotent ==
    pc = "again" => error = NoError /\ Tree(heap, result) = value1

\* A schema was normalized again that came from a document with a bare
\* reference and an object that the first call had to close.
IdempotentWitness ==
    /\ pc = "again"
    /\ error = NoError
    /\ IsBareRef(heap0, Prop(heap0, Ptr(doc), "b"))
    /\ \E a \in Dicts(heap0, Ptr(doc)) :
          IsObjectNode(heap0[a]) /\ ~HasKey(heap0[a], "additionalProperties")

\* C5: after the call, returned or raised, every object of the caller's
\* document is what it was before the call.
InputUnchanged ==
    Finished => \A a \in Reach(heap0, Ptr(doc)) : heap[a] = heap0[a]

\* The two sibling properties of the root are bare references to one
\* definition.
IsDiamond ==
    /\ IsBareRef(heap0, Prop(heap0, Ptr(doc), "b"))
    /\ IsBareRef(heap0, Prop(heap0, Ptr(doc), "a"))
    /\ Pointers(heap0, Prop(heap0, Ptr(doc), "b"))
          = Pointers(heap0, Prop(heap0, Ptr(doc), "a"))

\* C6: when two sibling properties reference the same definition, the two
\* inlined subtrees of the returned schema share no object with each other
\* or with the caller's document.
DiamondIndependent ==
    pc = "returned" /\ IsDiamond =>
        LET b == Reach(heap, Prop(heap, result, "b"))
            a == Reach(heap, Prop(heap, result, "a"))
        IN /\ b \cap a = {}
           /\ (b \cup a) \cap Reach(heap0, Ptr(doc)) = {}

\* C7: when the document, as the strict walk leaves it, has a pointer that
\* is met again while it is being resolved, the call raises the circular
\* reference error naming such a pointer and returns nothing.
CycleRejected ==
    (Finished /\ Walked.err = NoError
              /\ CyclicPointers(Walked.h, Ptr(doc)) # {}) =>
        /\ pc = "raised"
        /\ result = None
        /\ error \in {CircularReference(p) : p \in CyclicPointers(Walked.h, Ptr(doc))}

\* The call raised the circular reference error for a definition whose
\* property is a bare reference to the definition itself.
CycleRejectedWitness ==
    /\ pc = "raised"
    /\ error \in {CircularReference(p) : p \in Pointers(heap0, Ptr(doc))}
    /\ is_dict(heap0, Target(heap0, Ptr(doc), error.arg))
    /\ \E k \in {"x", "y", "z", "next"} :
          LET t == Target(heap0, Ptr(doc), error.arg) IN
          /\ IsBareRef(heap0, Prop(heap0, t, k))
          /\ Get(heap0[Prop(heap0, t, k).p], "$ref") = Str(error.arg)

\* C8: the circular reference error is raised only for a pointer that is
\* met again while it is being resolved; a document without such a pointer,
\* whatever the number of references to one definition, is inlined at every
\* reference.
PathScoped ==
    Finished =>
        LET cyclic == CyclicPointers(Walked.h, Ptr(doc)) IN
        /\ error.kind = CircularReference("").kind => error.arg \in cyclic
        /\ (Walked.err = NoError /\ cyclic = {}) =>
              /\ pc = "returned"
              /\ Pointers(heap, result) = {}

\* The call returned for a document whose two properties reference two
\* definitions, one of which also references the other: that definition is
\* reached directly and through another definition.
PathScopedWitness ==
    /\ pc = "returned"
    /\ IsBareRef(heap0, Prop(heap0, Ptr(doc), "b"))
    /\ IsBareRef(heap0, Prop(heap0, Ptr(doc), "a"))
    /\ \E p \in Pointers(heap0, Prop(heap0, Ptr(doc), "b")) :
       \E q \in Pointers(heap0, Prop(heap0, Ptr(doc), "a")) :
          p # q /\ (p \in PointersOf(heap0, Ptr(doc), q)
                     \/ q \in PointersOf(heap0, Ptr(doc), p))

\* An object node that declares additionalProperties = true.
IsOpenObject(o) ==
    IsObjectNode(o) /\ Get(o, "additionalProperties") = Bool(TRUE)

\* C9: when the strict walk reaches an object node of the document that
\* declares additionalProperties = true, the call raises the
\* additionalProperties error, returns nothing and leaves the value true.
OpenRejected ==
    Finished =>
        \A a \in walked \cap Reach(heap0, Ptr(doc)) :
            IsOpenObject(heap0[a]) =>
                /\ pc = "raised"
                /\ error = UserError
                /\ result = None
                /\ IsOpenObject(heap[a])

\* The call raised the additionalProperties error for an open object that
\* is not the root of the document.
OpenRejectedWitness ==
    /\ pc = "raised"
    /\ error = UserError
    /\ \E a \in walked \cap Reach(heap0, Ptr(doc)) : a # doc /\ IsOpenObject(heap0[a])

\* C10: normalize of the empty schema {} returns
\* {additionalProperties: false, type: object, properties: {}, required: []}.
EmptyCanonical ==
    (Finished /\ heap0[doc] = EmptyDict) =>
        /\ pc = "returned"
        /\ Tree(heap, result)
             = Dict(<<"additionalProperties", "type", "properties", "required">>,
                    <<Bool(FALSE), Str("object"), EmptyDict, EmptyList>>)

\* The call returned for the empty schema.
EmptyCanonicalWitness ==
    pc = "returned" /\ heap0[doc] = EmptyDict /\ is_dict(heap, result)

\* C11: after the caller has mutated the value one call returned, a later
\* call on an equal document returns the value the first call returned.
FreshResult ==
    pc = "later" => error = NoError /\ Tree(heap, result) = value1

\* The segments of a pointer that starts with "#/".
Segments(ref) == Split(SubSeq(Text(ref), 3, Len(Text(ref))), "")

\* The values met along the segments of ref from the root of the document:
\* At(ref)[i] is the value under segment i of the mapping At(ref)[i-1], None
\* when that is no mapping or has no such key.
At(ref) ==
    LET path == Segments(ref)
        at[i \in 0..Len(path)] ==
            IF i = 0 THEN Ptr(doc)
            ELSE IF is_dict(heap0, at[i-1]) /\ HasKey(heap0[at[i-1].p], path[i])
            THEN GetItem(heap0[at[i-1].p], path[i])
            ELSE None
    IN at

\* C12: resolve_ref raises and returns nothing when the pointer does not
\* start with "#/", when a segment is absent from the mapping traversed or
\* when a traversed value is not a mapping; otherwise it returns the node at
\* that path; the document is left as it was.
ResolveContract ==
    pc = "resolved" =>
        LET fails == \/ ~StartsWithRoot(Text(pointer))
                     \/ \E i \in 1..Len(Segments(pointer)) :
                           ~is_dict(heap0, At(pointer)[i])
        IN /\ fails => error # NoError /\ result = None
           /\ ~fails => /\ error = NoError
                         /\ result = At(pointer)[Len(Segments(pointer))]
           /\ heap = heap0

\* A pointer of three segments was resolved to a definition nested in a
\* property of the document.
ResolveContractWitness ==
    /\ pc = "resolved"
    /\ error = NoError
    /\ Len(Segments(pointer)) > 2
    /\ is_dict(heap0, result)

----------------------------------------------------------------------------
(* Properties of the repair pipeline *)

\* The caller's text parses as it is.
ParsesDirectly == json_loads(json_str).err = NoError

\* json.loads raises JSONDecodeError on the caller's text.
SyntaxFails == json_loads(json_str).err.kind = "JSONDecodeError"

\* The validator, if there is one, accepts the value of text.
Accepts(text) ==
    \/ type_adapter = None
    \/ validate_python(type_adapter, json_loads(text).v, text).err = NoError

\* The validator rejects the value of text with a validation error.
Rejects(text) ==
    /\ type_adapter # None
    /\ validate_python(type_adapter, json_loads(text).v, text).err.kind
         = "ValidationError"

\* The value a successful result carries for text: the validated value
\* when there is a validator, the parsed value otherwise.
ValueOf(text) ==
    IF type_adapter = None THEN json_loads(text).v
    ELSE validate_python(type_adapter, json_loads(text).v, text).v

\* C13: when the text parses directly and passes the validator, if any, the
\* result has success true, repair_applied false, the parsed (or validated)
\* value and the text itself as repaired_json, and no repair method is run.
DirectSuccess ==
    (ParsesDirectly /\ Accepts(json_str)) =>
        /\ rpc \in {"call", "done"}
        /\ ran = <<>>
        /\ rpc = "done" =>
              /\ res.success = TRUE
              /\ res.repair_applied = FALSE
              /\ res.parsed_object = ValueOf(json_str)
              /\ res.repaired_json = Str(json_str)
              /\ (json_str = "{\"a\":1}" /\ type_adapter = None)
                    => res.parsed_object = JObject(Num(1))

\* A text that parses directly was returned as a validated model object.
DirectSuccessWitness ==
    /\ rpc = "done"
    /\ ParsesDirectly
    /\ type_adapter = TypeAdapter("IntA")
    /\ res.success = TRUE
    /\ res.parsed_object # json_loads(json_str).v

\* C14: when the text parses directly and the validator rejects its value,
\* the call ends at once with success false, repair_applied false and the
\* validation error as original_error; no repair method is run.
DirectRejection ==
    (ParsesDirectly /\ Rejects(json_str)) =>
        /\ rpc \in {"call", "done"}
        /\ ran = <<>>
        /\ rpc = "done" =>
              /\ res.success = FALSE
              /\ res.repair_applied = FALSE
              /\ res.original_error = ValidationError(json_str)

\* A text that parses was rejected by the validator with repair enabled and
\* available.
DirectRejectionWitness ==
    /\ rpc = "done"
    /\ ParsesDirectly
    /\ Rejects(json_str)
    /\ enable_repair /\ JSON_REPAIR_AVAILABLE /\ max_repair_attempts > 0
    /\ res.success = FALSE

\* C15: when the text does not parse and repair is disabled or json_repair
\* is not available, the call ends with success false, repair_applied false
\* and the syntax error as original_error; no repair method is run.
RepairOff ==
    (SyntaxFails /\ (~enable_repair \/ ~JSON_REPAIR_AVAILABLE)) =>
        /\ rpc \in {"call", "done"}
        /\ ran = <<>>
        /\ rpc = "done" =>
              /\ res.success = FALSE
              /\ res.repair_applied = FALSE
              /\ res.original_error = JSONDecodeError(json_str)

\* A text that does not parse was refused with repair enabled but
\* json_repair unavailable.
RepairOffWitness ==
    /\ rpc = "done"
    /\ SyntaxFails
    /\ enable_repair /\ ~JSON_REPAIR_AVAILABLE
    /\ res.success = FALSE

\* Attempt i produced a text that parses and that the validator, if any,
\* accepts.
Usable(i) ==
    /\ ran[i].text # None
    /\ ~IsBlank(ran[i].text.s)
    /\ json_loads(ran[i].text.s).err = NoError
    /\ Accepts(ran[i].text.s)

\* C16: when a repair attempt yields a text that parses and passes the
\* validator, the call returns success true, repair_applied true, that text
\* as repaired_json, its parsed or validated value, and repair_details
\* naming the repair method and the number of the attempt.
RepairSuccess ==
    \A i \in 1..Len(ran) :
        Usable(i) =>
            /\ i = Len(ran)
            /\ rpc = "done"
            /\ res.success = TRUE
            /\ res.repair_applied = TRUE
            /\ res.repaired_json = ran[i].text
            /\ res.parsed_object = ValueOf(ran[i].text.s)
            /\ res.repair_details = SucceededAt(ran[i].repair_method, i)

\* The second attempt succeeded with a validated value.
RepairSuccessWitness ==
    /\ rpc = "done"
    /\ Len(ran) = 2
    /\ Usable(2)
    /\ type_adapter = TypeAdapter("IntA")
    /\ res.repaired_json # Str(json_str)

\* C17: an attempt whose text parses but is rejected by the validator does
\* not end the call: the loop goes on to the next attempt.
RejectionAdvances ==
    [][(/\ Len(ran') = Len(ran) + 1
        /\ ran'[Len(ran')].text # None
        /\ ~IsBlank(ran'[Len(ran')].text.s)
        /\ json_loads(ran'[Len(ran')].text.s).err = NoError
        /\ Rejects(ran'[Len(ran')].text.s))
       => (rpc' = "repairing" /\ attempt' = attempt + 1 /\ res' = None)]_vars

\* The call succeeded at an attempt that followed one whose text the
\* validator had rejected.
RejectionAdvancesWitness ==
    /\ rpc = "done"
    /\ res.success = TRUE
    /\ \E i \in 1..(Len(ran) - 1) :
          /\ ran[i].text # None
          /\ json_loads(ran[i].text.s).err = NoError
          /\ Rejects(ran[i].text.s)

\* The call went into the repair loop and no attempt produced a usable text.
Exhausted ==
    /\ rpc = "done"
    /\ SyntaxFails
    /\ enable_repair /\ JSON_REPAIR_AVAILABLE
    /\ \A i \in 1..Len(ran) : ~Usable(i)

\* C18: when no repair attempt succeeds, the result has success false,
\* repair_applied true and, as original_error, the error of the first parse
\* of the caller's text.
RootCauseKept ==
    Exhausted =>
        /\ res.success = FALSE
        /\ res.repair_applied = TRUE
        /\ res.original_error = JSONDecodeError(json_str)

\* Three attempts failed in three ways: the candidate did not parse, the
\* validator rejected it, json_repair raised.
RootCauseKeptWitness ==
    /\ Exhausted
    /\ {ran[i].outcome : i \in 1..Len(ran)} = {"syntax", "invalid", "exception"}

\* C19: when the repair fails, repair_details states the number of repair
\* attempts made in the call.
AttemptsStated ==
    Exhausted => res.repair_details = FailedAfter(Len(ran))

\* C20: a result with success true carries a parsed_object.
ValuePresent ==
    (rpc = "done" /\ res.success = TRUE) => res.parsed_object # None

\* C21: no exception leaves a call of repair_and_validate_json.
NeverRaises == rpc # "raised" /\ raised = NoError

\* The repair tier a repair method belongs to: 1 basic repair (repair_json),
\* 2 object-mode repair (loads), 3 return-object fallback.
TierOf(repair_method) ==
    CASE repair_method = "basic" -> 1
      [] repair_method = "loads" -> 2
      [] repair_method = "basic after loads failed" -> 1
      [] repair_method = "return_objects" -> 3

\* C22: the repair methods of one call run in strictly increasing order of
\* tier, the call stops at the first one whose text parses and passes the
\* validator, and at most max_repair_attempts of them are run.
TiersInOrder ==
    /\ \A i, j \in 1..Len(ran) :
          i < j => TierOf(ran[i].repair_method) < TierOf(ran[j].repair_method)
    /\ \A i \in 1..Len(ran) : Usable(i) => (i = Len(ran) /\ rpc = "done")
    /\ ran # <<>> => Len(ran) <= max_repair_attempts

\* The three ways a call ends with a failed result: the validator rejected
\* the directly parsed value, the text did not parse and no repair was to be
\* made, the repair loop ended without a usable text.
FailurePath ==
    IF rpc # "done" \/ res.success = TRUE THEN "none"
    ELSE IF ParsesDirectly THEN "direct validation"
    ELSE IF ~enable_repair \/ ~JSON_REPAIR_AVAILABLE THEN "repair off"
    ELSE "exhausted"

\* C30: a result with success false has an original_error and neither a
\* parsed_object nor a repaired_json, on each of the three failure paths.
FailureBare ==
    FailurePath # "none" =>
        /\ res.original_error # None
        /\ res.original_error.kind \in {"JSONDecodeError", "ValidationError"}
        /\ res.parsed_object = None
        /\ res.repaired_json = None

\* The repair loop ended with a failed result after a candidate text had
\* parsed and had been rejected by the validator.
FailureBareWitness ==
    /\ FailurePath = "exhausted"
    /\ \E i \in 1..Len(ran) : ran[i].text # None /\ ran[i].outcome = "invalid"
    /\ res.repaired_json = None

\* The kinds of error the normalizer raises on purpose.
SchemaErrors == {UserError.kind, TypeError.kind, CircularReference("").kind}

\* C27: ensure_strict_json_schema ends on every document with a schema or
\* with a schema error; its recursion is bounded by the document.
BoundedRecursion ==
    pc = "raised" => error.kind \in SchemaErrors

\* The one member of the allOf of the schema at v, None when the schema has
\* no allOf of exactly one member.
SingleMember(h, v) ==
    IF /\ is_dict(h, v)
       /\ is_list(h, Get(h[v.p], "allOf"))
       /\ Len(h[Get(h[v.p], "allOf").p].elems) = 1
    THEN h[Get(h[v.p], "allOf").p].elems[1]
    ELSE None

\* C28: when property b of the document is an allOf of one member, the
\* returned property b has no allOf of one member and has every key the
\* member carried, an allOf of two or more entries included (a $ref of the
\* member is replaced by its definition).
FlattenKeeps ==
    pc = "returned" =>
        LET member == SingleMember(heap0, Prop(heap0, Ptr(doc), "b"))
            b == Prop(heap, result, "b")
        IN is_dict(heap0, member) =>
              /\ is_dict(heap, b)
              /\ SingleMember(heap, b) = None
              /\ \A k \in Range(heap0[member.p].keys) \ {"$ref"} :
                    (k = "allOf" => SingleMember(heap0, member) = None)
                        => HasKey(heap[b.p], k)

\* A node with a $ref and sibling keys.
IsDecoratedRef(h, v) ==
    is_dict(h, v) /\ HasKey(h[v.p], "$ref") /\ Len(h[v.p].keys) > 1

\* The definition the $ref of the node at v names in the document, None
\* without one.
Definition(v) ==
    IF IsDecoratedRef(heap0, v) /\ IsStr(GetItem(heap0[v.p], "$ref"))
    THEN Target(heap0, Ptr(doc), GetItem(heap0[v.p], "$ref").s)
    ELSE None

\* Property k of the document is a $ref with sibling keys to a definition,
\* and property k of schema r is that definition merged underneath the
\* sibling keys: no $ref, the sibling keys with their values, and the keys
\* that only the definition has.
Unravelled(r, k) ==
    LET node == Prop(heap0, Ptr(doc), k)
        merged == Prop(heap, r, k)
    IN is_dict(heap0, Definition(node)) =>
          /\ is_dict(heap, merged)
          /\ ~HasKey(heap[merged.p], "$ref")
          /\ \A key \in Range(heap0[node.p].keys) \ {"$ref"} :
                Get(heap[merged.p], key) = GetItem(heap0[node.p], key)
          /\ \A key \in Range(heap0[Definition(node).p].keys)
                            \ Range(heap0[node.p].keys) :
                HasKey(heap[merged.p], key)

\* The schema at v is strict when it is an object schema.
StrictNode(h, v) ==
    (is_dict(h, v) /\ IsObjectNode(h[v.p])) =>
        /\ Get(h[v.p], "additionalProperties") = Bool(FALSE)
        /\ is_dict(h, Get(h[v.p], "properties"))
        /\ is_list(h, Get(h[v.p], "required"))
        /\ Names(h, Get(h[v.p], "required")) = h[GetItem(h[v.p], "properties").p].keys

\* C29: a $ref with sibling keys is replaced by the definition's fields
\* merged underneath the sibling keys, the sibling winning every conflict,
\* without the $ref; the merged node is strict; inline_all_refs merges
\* with the same precedence as the strict walk.
MergePrecedence ==
    /\ pc \in {"returned", "inlined"} =>
          \A k \in {"a", "b"} : Unravelled(result, k) /\ StrictNode(heap, Prop(heap, result, k))
    /\ (pc = "inlined" /\ error = NoError) =>
          \A k \in {"a", "b"} : Unravelled(inlined_schema, k)

\* Both the strict walk and inline_all_refs have replaced property b, a
\* $ref with the description "local" to a definition that has a
\* description of its own, and both kept the description "local".
MergePrecedenceWitness ==
    /\ pc = "inlined" /\ error = NoError
    /\ is_dict(heap0, Definition(Prop(heap0, Ptr(doc), "b")))
    /\ HasKey(heap0[Definition(Prop(heap0, Ptr(doc), "b")).p], "description")
    /\ Get(heap[Prop(heap, result, "b").p], "description") = Str("local")
    /\ Get(heap[Prop(heap, inlined_schema, "b").p], "description") = Str("local")
    /\ Get(heap[Prop(heap, result, "b").p], "type") = Str("string")

\* C26: when cleanup_cache(max_size) has returned, the cache has at most
\* max_size entries, and the entries it has are the newest ones of the
\* cache before the call, in their order.
CacheBounded ==
    [][\A max_size \in 0..MaxSize :
          cleanup_cache(max_size) =>
              /\ Len(validator_cache') <= max_size
              /\ validator_cache' =
                    SubSeq(validator_cache,
                           Len(validator_cache) - Len(validator_cache') + 1,
                           Len(validator_cache))]_vars

\* A call of validate_json of an AgentOutputSchema has ended.
Validated ==
    /\ bpc \in {"returned", "raised"}
    /\ output_schema # None
    /\ output_schema.class = "AgentOutputSchema"

\* C23: validate_json returns the value of the pipeline (taken out of the
\* wrapper for a wrapped type) when the result has success true; when it
\* has success false it raises a ModelBehaviorError whose message names the
\* target type and includes original_error; no other exception leaves it.
ErrorContract ==
    Validated =>
        /\ (res # None /\ res.success) =>
               /\ out.kind = "return"
               /\ out.v = IF output_schema.is_wrapped
                          THEN res.parsed_object[WRAPPER_DICT_KEY]
                          ELSE res.parsed_object
        /\ (res # None /\ ~res.success) =>
               /\ out.kind = "raise"
               /\ out.err.kind = "ModelBehaviorError"
               /\ out.err.message.original_error = res.original_error
               /\ out.err.message.target_type = Str(output_schema.output_type)
        /\ out.kind = "raise" => out.err.kind = "ModelBehaviorError"

\* C24: for the wrapped output type int, validate_json returns the value
\* under the key "response" of the object the text, or its repaired text,
\* encodes, and not the wrapper; the pipeline's value has the key exactly
\* when the text it was parsed from has it; a text that parses to
\* {"response": v} with v an int is never refused.
Unwrapped ==
    (Validated /\ output_schema.is_wrapped) =>
        /\ bpc = "returned" =>
              /\ res.success
              /\ res.parsed_object = json_loads(res.repaired_json.s).v
              /\ out.v = json_loads(res.repaired_json.s).v[WRAPPER_DICT_KEY]
              /\ WRAPPER_DICT_KEY \notin DOMAIN out.v
        /\ json_loads(json_str).v = Wrapper(Num(1)) =>
              /\ bpc = "returned"
              /\ out.v = Num(1)

\* validate_json returned 1 for the output type int after the text
\* { response: 1 }, which does not parse, had been repaired.
UnwrappedWitness ==
    /\ Validated
    /\ output_schema.is_wrapped
    /\ bpc = "returned"
    /\ json_str = "{ response: 1 }"
    /\ res.repair_applied
    /\ out.v = Num(1)

\* A call of validate_json of a JsonObjectOutputSchema, or the construction
\* of the schema, has ended.
JsonObjectValidated ==
    /\ bpc \in {"returned", "raised"}
    /\ output_schema = None \/ output_schema.class = "JsonObjectOutputSchema"

\* C25: JsonObjectOutputSchema accepts enable_json_repair at construction
\* and enable_repair at validate_json, and a text that does not parse is
\* given to the repair when the repair is on, which it is by default.
JsonObjectRepairs ==
    JsonObjectValidated =>
        /\ out.kind = "raise" =>
              out.err.kind # UnexpectedKeyword("enable_repair").kind
        /\ (output_schema # None /\ SyntaxFails /\ JSON_REPAIR_AVAILABLE) =>
              ran # <<>>

====
